---- MODULE Spec2Model ----
(***************************************************************************)
(* FLEX QC: the inspection workflow of App.tsx (React state of the App    *)
(* component, its handlers and its delayed submission) over the record    *)
(* store of storage.ts (Users, Reports, Device Statuses in localStorage). *)
(*                                                                         *)
(* Strings whose characters matter (device identifiers, failure reasons)  *)
(* are sequences of one-character strings, so that trim() and              *)
(* toUpperCase() are computed.  Clock readings are integers (ms).          *)
(***************************************************************************)
EXTENDS Integers, Sequences, FiniteSets, TLC

VARIABLES
  currentStep,    \* App.tsx:79  AppStep
  selectedStage,  \* App.tsx:80  'FQC' | 'Packaging' | null
  currentUser,    \* App.tsx:81  User | null
  deviceId,       \* App.tsx:82
  deviceImage,    \* App.tsx:83
  deviceImageRead, \* a fileToBase64 of the device photo is under way
  checkpoints,    \* App.tsx:84  CheckpointResult[]
  isSubmitting,   \* App.tsx:86
  error,          \* App.tsx:87
  scanning,       \* App.tsx:89
  videoStream,    \* App.tsx:88  videoRef.current.srcObject is set
  scanStage,      \* selectedStage closed over by detectCode while scanning
  submitTimer,    \* the pending setTimeout callback of handleFinalSubmit
  users,          \* localStorage flex_qc_users
  reports,        \* localStorage flex_qc_reports
  deviceStatuses, \* localStorage flex_qc_device_status
  statusWrites,   \* history: device-status writes of the last submission
  alert,          \* the text of the alert() the last handler raised, or ""
  now,            \* the wall clock, ms
  pending,        \* checkpoint photo reads and reason suggestions under way
  frameLoop,      \* a requestAnimationFrame(detectCode) is scheduled
  editingUserId,  \* App.tsx:794  AdminPanel
  searchQuery,    \* App.tsx:797  AdminPanel
  searchStage,    \* App.tsx:798  AdminPanel
  searchResult,   \* App.tsx:799  AdminPanel
  hasSearched,    \* App.tsx:800  AdminPanel
  dashboard,      \* what renderDashboard shows, while the dashboard is rendered
  download        \* the csvContent of the last export

vars == <<currentStep, selectedStage, currentUser, deviceId, deviceImage,
          deviceImageRead, checkpoints,
          isSubmitting, error, scanning, videoStream, scanStage, submitTimer,
          users, reports, deviceStatuses, statusWrites, alert, now,
          pending, frameLoop, editingUserId, searchQuery, searchStage,
          searchResult, hasSearched, dashboard, download>>

scanner == <<scanning, videoStream, scanStage>>
photo == <<deviceImage, deviceImageRead>>
store == <<users, reports, deviceStatuses, statusWrites>>
\* what the rendered step holds: the state of the AdminPanel and the dashboard
mounted == <<editingUserId, searchQuery, searchStage, searchResult,
             hasSearched, dashboard>>
aside == <<pending, frameLoop, download>>

(***************************************************************************)
(* Bounds of the model.                                                    *)
(***************************************************************************)
MaxReports == 3        \* stored reports (Spec)
MaxCheckpoints == 2    \* length of a checklist (SpecChecklist)
MaxSessionReports == 1 \* reports stored in a session (SpecSession)
MaxRoundReports == 1   \* stored reports (SpecRound)
MaxTicks == 1          \* ms the clock advances between readings of a round
MaxPending == 2        \* photo reads and suggestions under way (SpecAsync)
MaxUsers == 3          \* users in the Users collection (SpecAdmin)
MaxDashboardReports == 2 \* reports of the stores of SpecDashboard

(***************************************************************************)
(* Values.                                                                 *)
(***************************************************************************)
NULL == "null"
NoUser == [none |-> TRUE]
NoTimer == [none |-> TRUE]
NoStatus == [none |-> TRUE]
\* localStorage without the flex_qc_users key
NoUsers == << [none |-> TRUE] >>
NoView == [none |-> TRUE]
UNDEFINED == "undefined"
\* searchResult before a search (undefined) and after a search without a
\* match (null)
NotSearched == [none |-> "undefined"]
NotFound == [none |-> "null"]
NoDownload == [none |-> TRUE]
\* the characters of a text that matter are its double quotes: a text is
\* the sequence of its quotes and of the stretches between them
QUOTE == "\""
Stages == {"FQC", "Packaging"}

\* the delay of the setTimeout in handleFinalSubmit
SUBMIT_DELAY == 1500

INITIAL_ADMIN_USER ==
  [userId |-> "admin", password |-> "123", isAdmin |-> TRUE,
   isActive |-> TRUE, assignedStage |-> "FQC"]

\* The stage templates, cut to their first entry.
FQC_CHECKPOINTS ==
  << [id |-> "fqc_01", label |-> "Check for outer body"] >>

PACKAGING_CHECKPOINTS ==
  << [id |-> "pkg_01", label |-> "Verify that the Device ID matches"] >>

(***************************************************************************)
(* String helpers.                                                         *)
(***************************************************************************)
IsSpace(c) == c = " "

RECURSIVE TrimStart(_)
TrimStart(s) ==
  IF s = <<>> THEN <<>>
  ELSE IF IsSpace(Head(s)) THEN TrimStart(Tail(s)) ELSE s

RECURSIVE TrimEnd(_)
TrimEnd(s) ==
  IF s = <<>> THEN <<>>
  ELSE IF IsSpace(s[Len(s)]) THEN TrimEnd(SubSeq(s, 1, Len(s) - 1)) ELSE s

\* String.prototype.trim
Trim(s) == TrimEnd(TrimStart(s))

UpperChar(c) ==
  CASE c = "a" -> "A"
    [] c = "b" -> "B"
    [] OTHER -> c

RECURSIVE ToUpperCase(_)
\* String.prototype.toUpperCase
ToUpperCase(s) ==
  IF s = <<>> THEN <<>> ELSE <<UpperChar(Head(s))>> \o ToUpperCase(Tail(s))

\* Date.prototype.toISOString: fixed-width digits, most significant first
ToISOString(t) ==
  << (t \div 10000) % 10, (t \div 1000) % 10, (t \div 100) % 10,
     (t \div 10) % 10, t % 10 >>

(***************************************************************************)
(* geminiService.ts.  A string the program never looks into is one token. *)
(***************************************************************************)
\* the reason of the catch block
FALLBACK_REASON == << "Unknown defect; further investigation required." >>

\* the reason of the body used when response.text is empty
DEFAULT_REASON == << "Mechanical defect detected." >>

\* what generateContent can come back with: a rejection, or a response
\* whose text is one of these bodies
Rejected == [rejected |-> TRUE, text |-> ""]
Answered(text) == [rejected |-> FALSE, text |-> text]

Thrown == [throws |-> TRUE, reason |-> UNDEFINED]
Parsed(reason) == [throws |-> FALSE, reason |-> reason]

\* JSON.parse(body) followed by the read of .reason, on the bodies in use
JSONParse(body) ==
  CASE body = "{\"reason\": \"Mechanical defect detected.\"}" -> Parsed(DEFAULT_REASON)
    [] body = "{\"reason\": \"x\"}" -> Parsed(<<"x">>)
    [] body = "{\"reason\": \"\"}" -> Parsed(<<>>)
    [] body = "{}" -> Parsed(UNDEFINED)
    [] OTHER -> Thrown

suggestFailureReason(response) ==
  IF response.rejected THEN FALLBACK_REASON
  ELSE LET data ==
             JSONParse(IF response.text # "" THEN response.text
                       ELSE "{\"reason\": \"Mechanical defect detected.\"}")
       IN IF data.throws THEN FALLBACK_REASON ELSE data.reason

(***************************************************************************)
(* storage.ts                                                              *)
(***************************************************************************)
\* the Users collection as read: seeded with the admin when the key is absent
getStoredUsers(stored) ==
  IF stored = NoUsers THEN << INITIAL_ADMIN_USER >> ELSE stored

\* a lookup that never finds the row
FindIndexMissing(statuses, d) == 0

\* Array.prototype.findIndex on the status rows; 0 stands for -1
FindIndex(statuses, d) ==
  IF \E i \in 1..Len(statuses) : statuses[i].deviceId = d
  THEN CHOOSE i \in 1..Len(statuses) :
         /\ statuses[i].deviceId = d
         /\ \A j \in 1..(i - 1) : statuses[j].deviceId # d
  ELSE 0

getDeviceStatus(statuses, d) ==
  IF FindIndex(statuses, d) = 0 THEN NoStatus ELSE statuses[FindIndex(statuses, d)]

\* an update that rebuilds the row of a known device from scratch
updateDeviceStatusRebuilt(statuses, d, stage, status, t) ==
  LET existingIndex == FindIndex(statuses, d)
      newStatus == [deviceId |-> d, fqcStatus |-> "pending",
                    packagingStatus |-> "pending", lastUpdated |-> ToISOString(t)]
      setStage(row) ==
        IF stage = "FQC" THEN [row EXCEPT !.fqcStatus = status]
        ELSE IF stage = "Packaging" THEN [row EXCEPT !.packagingStatus = status]
        ELSE row
  IN IF existingIndex > 0
     THEN [statuses EXCEPT ![existingIndex] = setStage(newStatus)]
     ELSE Append(statuses, setStage(newStatus))

updateDeviceStatus(statuses, d, stage, status, t) ==
  LET existingIndex == FindIndex(statuses, d)
      newStatus == [deviceId |-> d, fqcStatus |-> "pending",
                    packagingStatus |-> "pending", lastUpdated |-> ToISOString(t)]
      setStage(row) ==
        IF stage = "FQC" THEN [row EXCEPT !.fqcStatus = status]
        ELSE IF stage = "Packaging" THEN [row EXCEPT !.packagingStatus = status]
        ELSE row
  IN IF existingIndex > 0
     THEN [statuses EXCEPT ![existingIndex] =
             [setStage(@) EXCEPT !.lastUpdated = ToISOString(t)]]
     ELSE Append(statuses, setStage(newStatus))

\* a push that stores the checklist as it is on screen when the timer fires
saveReportPushLive(reps, report) ==
  Append(reps, [report EXCEPT !.checkpoints = checkpoints])

\* a write that keeps only the newest report
saveReportPushOnly(reps, report) == <<report>>

\* the report list after saveReport's push
saveReportPush(reps, report) == Append(reps, report)

\* the status saveReport passes to updateDeviceStatus
saveReportStatus(report) == "completed"

(***************************************************************************)
(* App.tsx: pure parts of the handlers                                     *)
(***************************************************************************)
BaseCheckpoints(stage) ==
  IF stage = "FQC" THEN FQC_CHECKPOINTS ELSE PACKAGING_CHECKPOINTS

RECURSIVE Blank(_)
\* template.map(cp => ({ ...cp, status: null, image: null, reason: '' }))
Blank(template) ==
  IF template = <<>> THEN <<>>
  ELSE << [id |-> Head(template).id, label |-> Head(template).label,
           status |-> NULL, image |-> NULL, reason |-> <<>>] >>
       \o Blank(Tail(template))

BuildChecklist(stage) == Blank(BaseCheckpoints(stage))

\* a stage control that lets every device FQC has judged into Packaging
canEnterStageJudged(statuses, d, stage) ==
  ~ ( /\ stage = "Packaging"
      /\ \/ getDeviceStatus(statuses, d) = NoStatus
         \/ getDeviceStatus(statuses, d).fqcStatus = "pending" )

\* the stage control of handleDeviceSubmit
canEnterStage(statuses, d, stage) ==
  ~ ( /\ stage = "Packaging"
      /\ \/ getDeviceStatus(statuses, d) = NoStatus
         \/ getDeviceStatus(statuses, d).fqcStatus # "completed" )

\* a completeness test that takes the reason as typed
cpCompleteUntrimmed(cp) ==
  /\ cp.status # NULL
  /\ cp.image # NULL
  /\ \/ cp.status = "Pass"
     \/ (cp.status = "Fail" /\ cp.reason # <<>>)

cpComplete(cp) ==
  /\ cp.status # NULL
  /\ cp.image # NULL
  /\ \/ cp.status = "Pass"
     \/ (cp.status = "Fail" /\ Trim(cp.reason) # <<>>)

\* a test that is content with one complete checkpoint
canSubmitSome(cps) == \E i \in 1..Len(cps) : cpComplete(cps[i])

\* isComplete of handleFinalSubmit
canSubmit(cps) == \A i \in 1..Len(cps) : cpComplete(cps[i])

\* an outcome that fails only when every checkpoint failed
outcomeOfEvery(cps) ==
  IF \A i \in 1..Len(cps) : cps[i].status = "Fail" THEN "failed" ELSE "completed"

\* report.checkpoints.some(cp => cp.status === 'Fail') ? 'failed' : 'completed'
outcomeOf(cps) ==
  IF \E i \in 1..Len(cps) : cps[i].status = "Fail" THEN "failed" ELSE "completed"

RECURSIVE applyUpdate(_, _, _, _)
\* prev.map(cp => cp.id === id ? { ...cp, ...updates } : cp)
applyUpdate(cps, id, field, value) ==
  IF cps = <<>> THEN <<>>
  ELSE << IF Head(cps).id = id THEN [Head(cps) EXCEPT ![field] = value]
          ELSE Head(cps) >>
       \o applyUpdate(Tail(cps), id, field, value)

\* prev.filter(cp => cp.id !== id)
RECURSIVE filterOut(_, _)
filterOut(cps, id) ==
  IF cps = <<>> THEN <<>>
  ELSE IF Head(cps).id = id THEN filterOut(Tail(cps), id)
  ELSE <<Head(cps)>> \o filterOut(Tail(cps), id)

\* the letters of the credentials in use, folded to lower case
FoldCase(text) ==
  CASE text = "OP1" -> "op1"
    [] text = "P1" -> "p1"
    [] OTHER -> text

\* a search that ignores the case of letters
findUserFolded(us, userId, password) ==
  IF \E i \in 1..Len(us) : /\ FoldCase(us[i].userId) = FoldCase(userId)
                           /\ FoldCase(us[i].password) = FoldCase(password)
  THEN us[CHOOSE i \in 1..Len(us) :
            /\ FoldCase(us[i].userId) = FoldCase(userId)
            /\ FoldCase(us[i].password) = FoldCase(password)]
  ELSE NoUser

\* users.find(u => u.userId === userId && u.password === password)
findUser(us, userId, password) ==
  IF \E i \in 1..Len(us) : us[i].userId = userId /\ us[i].password = password
  THEN us[CHOOSE i \in 1..Len(us) :
            /\ us[i].userId = userId /\ us[i].password = password
            /\ \A j \in 1..(i - 1) :
                 ~(us[j].userId = userId /\ us[j].password = password)]
  ELSE NoUser

(***************************************************************************)
(* Inputs.                                                                 *)
(***************************************************************************)
TypedIds == { <<>>, <<"a">>, <<"b">> }
ScanCodes == { <<"A">> }
\* what a code can carry: an identifier, or a blank
DecodedCodes == { <<"A">>, <<" ">> }
Reasons == { <<>>, <<" ">>, <<"x">> }
FlowReasons == { <<"x">> }
\* a label typed over another: a bare number, as for a numbered step
FlowLabels == { "2" }
\* the device typed for the next inspection
NextIds == { <<"b">> }
\* the service answers with a reason, or the call fails
FlowResponses == { Answered("{\"reason\": \"x\"}"), Rejected }
\* the ways the call can end: it fails, or it answers with no text, with
\* text that is not JSON, with a reason, with an empty reason.  (A JSON body
\* without a reason property leaves the reason undefined, which is not a
\* string; it is not among the answers drawn here.)
Responses ==
  { Rejected, Answered(""), Answered("Sorry, I cannot help with that."),
    Answered("{\"reason\": \"x\"}"), Answered("{\"reason\": \"\"}") }
FlowIds == { <<"a">>, <<"b">> }
SessionIds == { <<"a">> }
FlowCredentials == { <<"op1", "p1">>, <<"op2", "p2">> }
Operator(userId, password, stage) ==
  [userId |-> userId, password |-> password, isAdmin |-> FALSE,
   isActive |-> TRUE, assignedStage |-> stage]
\* the Users collection once the administrator registered an operator per stage
Directory ==
  << INITIAL_ADMIN_USER, Operator("op1", "p1", "FQC"),
     Operator("op2", "p2", "Packaging") >>
Credentials ==
  { <<"admin", "123">>, <<"op1", "p1">>, <<"op2", "p2">>, <<"op1", "P1">> }

\* the Users collection after the administrator moved the admin account to
\* Packaging (search, edit), registered op3 and disabled it
Staffed ==
  << [INITIAL_ADMIN_USER EXCEPT !.assignedStage = "Packaging"],
     Operator("op1", "p1", "FQC"), Operator("op2", "p2", "Packaging"),
     [Operator("op3", "p3", "FQC") EXCEPT !.isActive = FALSE] >>
LoginDirectories == { Directory, Staffed }
LoginCredentials ==
  Credentials \cup { <<"op3", "p3">>, <<"OP1", "p1">>, <<"nobody", "p1">> }

(***************************************************************************)
(* App.tsx: renderDashboard                                                *)
(***************************************************************************)
\* the rows of the Device Status table
TABLE_ROWS == 10

\* Array.prototype.slice(0, n)
Slice(seq, n) == SubSeq(seq, 1, IF Len(seq) < n THEN Len(seq) ELSE n)

\* the entries of the Top Failure Points list
TOP_FAILURES == 5

RECURSIVE failedLabels(_)
\* the labels of the failed checkpoints of a checklist, in its order
failedLabels(cps) ==
  IF cps = <<>> THEN <<>>
  ELSE (IF Head(cps).status = "Fail" THEN << Head(cps).label >> ELSE <<>>)
       \o failedLabels(Tail(cps))

RECURSIVE failures(_)
\* the labels counted by reports.forEach(... checkpoints.forEach(...)), in
\* the order of the counting
failures(reps) ==
  IF reps = <<>> THEN <<>>
  ELSE failedLabels(Head(reps).checkpoints) \o failures(Tail(reps))

\* failureCounts[label]
failureCount(labels, label) ==
  Cardinality({ i \in 1..Len(labels) : labels[i] = label })

RECURSIVE created(_)
\* the properties of failureCounts in the order of their creation
created(labels) ==
  IF labels = <<>> THEN <<>>
  ELSE LET before == created(SubSeq(labels, 1, Len(labels) - 1))
           last == labels[Len(labels)]
       IN IF \E i \in 1..Len(before) : before[i] = last
          THEN before
          ELSE Append(before, last)

\* the array index a property key stands for, -1 for the keys that are not
\* canonical numeric strings; on the labels in use
ArrayIndex(key) ==
  CASE key = "1" -> 1
    [] key = "2" -> 2
    [] OTHER -> -1

RECURSIVE ascending(_)
ascending(keys) ==
  IF keys = {} THEN <<>>
  ELSE LET least == CHOOSE k \in keys :
                      \A other \in keys : ArrayIndex(k) <= ArrayIndex(other)
       IN << least >> \o ascending(keys \ { least })

\* the order in which Object.entries enumerates the keys: array indices in
\* ascending numeric order, then the other strings in creation order
ownKeys(keys) ==
  ascending({ keys[i] : i \in { k \in 1..Len(keys) : ArrayIndex(keys[k]) >= 0 } })
  \o SelectSeq(keys, LAMBDA k : ArrayIndex(k) < 0)

RECURSIVE entriesOf(_, _)
entriesOf(keys, labels) ==
  IF keys = <<>> THEN <<>>
  ELSE << << Head(keys), failureCount(labels, Head(keys)) >> >>
       \o entriesOf(Tail(keys), labels)

\* Object.entries(failureCounts)
entries(labels) == entriesOf(ownKeys(created(labels)), labels)

RECURSIVE insertByCount(_, _)
insertByCount(sorted, entry) ==
  IF sorted = <<>> THEN << entry >>
  ELSE IF Head(sorted)[2] >= entry[2]
  THEN << Head(sorted) >> \o insertByCount(Tail(sorted), entry)
  ELSE << entry >> \o sorted

RECURSIVE sortByCount(_)
\* Array.prototype.sort((a, b) => b[1] - a[1]), which is stable
sortByCount(es) ==
  IF es = <<>> THEN <<>>
  ELSE insertByCount(sortByCount(SubSeq(es, 1, Len(es) - 1)), es[Len(es)])

sortedFailures(reps) == Slice(sortByCount(entries(failures(reps))), TOP_FAILURES)

renderDashboard(reps, statuses) ==
  [deviceTable |-> Slice(statuses, TABLE_ROWS),
   sortedFailures |-> sortedFailures(reps)]

(***************************************************************************)
(* The <video> element exists only while the scan screen is rendered: its *)
(* stream reference is gone once another step is shown.  The AdminPanel   *)
(* and the dashboard are mounted anew with the step that shows them.      *)
(***************************************************************************)
Show(step) ==
  /\ currentStep' = step
  /\ videoStream' = (videoStream /\ step = "SCAN_DEVICE_ID")
  /\ editingUserId' = NULL
  /\ searchQuery' = ""
  /\ searchStage' = "FQC"
  /\ searchResult' = NotSearched
  /\ hasSearched' = FALSE
  /\ dashboard' = IF step = "DASHBOARD"
                  THEN renderDashboard(reports, deviceStatuses)
                  ELSE NoView

Max(a, b) == IF a > b THEN a ELSE b

(***************************************************************************)
(* App.tsx: navigation and authorization                                   *)
(***************************************************************************)
\* a stage selection that sends every operator to the login screen
handleStageSelectToLogin(stage) ==
  /\ currentStep = "STAGE_SELECTION"
  /\ selectedStage' = stage
  /\ IF currentUser # NoUser /\ ~currentUser.isAdmin
        /\ currentUser.assignedStage = stage
     THEN Show("DEVICE_ID_ENTRY")
     ELSE Show("LOGIN")
  /\ error' = ""
  /\ alert' = ""
  /\ UNCHANGED photo
  /\ UNCHANGED <<currentUser, deviceId, checkpoints, isSubmitting, scanning,
                 scanStage, submitTimer, store, now>>
  /\ UNCHANGED aside

handleStageSelect(stage) ==
  /\ currentStep = "STAGE_SELECTION"
  /\ selectedStage' = stage
  /\ IF currentUser # NoUser /\ ~currentUser.isAdmin
     THEN IF currentUser.assignedStage # stage
          THEN /\ error' = "StageMismatch"
               /\ UNCHANGED <<currentStep, videoStream, mounted>>
          ELSE /\ Show("DEVICE_ID_ENTRY")
               /\ error' = ""
     ELSE /\ Show("LOGIN")
          /\ error' = ""
  /\ alert' = ""
  /\ UNCHANGED photo
  /\ UNCHANGED <<currentUser, deviceId, checkpoints, isSubmitting, scanning,
                 scanStage, submitTimer, store, now>>
  /\ UNCHANGED aside

\* an Admin Access that opens the console to whoever is logged in
handleAdminAccessOfAnyone ==
  /\ currentStep = "STAGE_SELECTION"
  /\ selectedStage' = NULL
  /\ IF currentUser # NoUser
     THEN Show("ADMIN")
     ELSE Show("LOGIN")
  /\ error' = ""
  /\ alert' = ""
  /\ UNCHANGED photo
  /\ UNCHANGED <<currentUser, deviceId, checkpoints, isSubmitting, scanning,
                 scanStage, submitTimer, store, now>>
  /\ UNCHANGED aside

handleAdminAccess ==
  /\ currentStep = "STAGE_SELECTION"
  /\ selectedStage' = NULL
  /\ IF currentUser # NoUser /\ currentUser.isAdmin
     THEN Show("ADMIN")
     ELSE Show("LOGIN")
  /\ error' = ""
  /\ alert' = ""
  /\ UNCHANGED photo
  /\ UNCHANGED <<currentUser, deviceId, checkpoints, isSubmitting, scanning,
                 scanStage, submitTimer, store, now>>
  /\ UNCHANGED aside

\* a login that admits an operator to any stage
handleLoginAnyStage(userId, password) ==
  /\ currentStep = "LOGIN"
  /\ LET user == findUser(getStoredUsers(users), userId, password)
     IN IF user # NoUser
        THEN IF ~user.isActive
             THEN /\ error' = "AccountDisabled"
                  /\ UNCHANGED <<currentUser, currentStep, videoStream, mounted>>
             ELSE IF user.isAdmin
             THEN /\ currentUser' = user
                  /\ error' = ""
                  /\ Show("ADMIN")
             ELSE IF selectedStage = NULL
             THEN /\ error' = "NoStageSelected"
                  /\ UNCHANGED <<currentUser, currentStep, videoStream, mounted>>
             ELSE /\ currentUser' = user
                  /\ error' = ""
                  /\ Show("DEVICE_ID_ENTRY")
        ELSE /\ error' = "InvalidCredentials"
             /\ UNCHANGED <<currentUser, currentStep, videoStream, mounted>>
  /\ alert' = ""
  /\ UNCHANGED photo
  /\ users' = getStoredUsers(users)
  /\ UNCHANGED <<selectedStage, deviceId, checkpoints, isSubmitting, scanning,
                 scanStage, submitTimer, reports, deviceStatuses, statusWrites,
                 now>>
  /\ UNCHANGED aside

\* a login that holds the administrator to the stage check
handleLoginAdminChecked(userId, password) ==
  /\ currentStep = "LOGIN"
  /\ LET user == findUser(getStoredUsers(users), userId, password)
     IN IF user # NoUser
        THEN IF ~user.isActive
             THEN /\ error' = "AccountDisabled"
                  /\ UNCHANGED <<currentUser, currentStep, videoStream, mounted>>
             ELSE IF selectedStage = NULL
             THEN /\ error' = "NoStageSelected"
                  /\ UNCHANGED <<currentUser, currentStep, videoStream, mounted>>
             ELSE IF user.assignedStage # selectedStage
             THEN /\ error' = "StageMismatch"
                  /\ UNCHANGED <<currentUser, currentStep, videoStream, mounted>>
             ELSE /\ currentUser' = user
                  /\ error' = ""
                  /\ Show(IF user.isAdmin THEN "ADMIN" ELSE "DEVICE_ID_ENTRY")
        ELSE /\ error' = "InvalidCredentials"
             /\ UNCHANGED <<currentUser, currentStep, videoStream, mounted>>
  /\ alert' = ""
  /\ UNCHANGED photo
  /\ users' = getStoredUsers(users)
  /\ UNCHANGED <<selectedStage, deviceId, checkpoints, isSubmitting, scanning,
                 scanStage, submitTimer, reports, deviceStatuses, statusWrites,
                 now>>
  /\ UNCHANGED aside

handleLogin(userId, password) ==
  /\ currentStep = "LOGIN"
  /\ LET user == findUser(getStoredUsers(users), userId, password)
     IN IF user # NoUser
        THEN IF ~user.isActive
             THEN /\ error' = "AccountDisabled"
                  /\ UNCHANGED <<currentUser, currentStep, videoStream, mounted>>
             ELSE IF user.isAdmin
             THEN /\ currentUser' = user
                  /\ error' = ""
                  /\ Show("ADMIN")
             ELSE IF selectedStage = NULL
             THEN /\ error' = "NoStageSelected"
                  /\ UNCHANGED <<currentUser, currentStep, videoStream, mounted>>
             ELSE IF user.assignedStage # selectedStage
             THEN /\ error' = "StageMismatch"
                  /\ UNCHANGED <<currentUser, currentStep, videoStream, mounted>>
             ELSE /\ currentUser' = user
                  /\ error' = ""
                  /\ Show("DEVICE_ID_ENTRY")
        ELSE /\ error' = "InvalidCredentials"
             /\ UNCHANGED <<currentUser, currentStep, videoStream, mounted>>
  /\ alert' = ""
  /\ UNCHANGED photo
  /\ users' = getStoredUsers(users)
  /\ UNCHANGED <<selectedStage, deviceId, checkpoints, isSubmitting, scanning,
                 scanStage, submitTimer, reports, deviceStatuses, statusWrites,
                 now>>
  /\ UNCHANGED aside

\* the BACK buttons of the login, device, admin and dashboard screens, and
\* the logo of the header while nobody is logged in
backToStageSelection ==
  /\ \/ currentStep \in {"LOGIN", "DEVICE_ID_ENTRY", "ADMIN", "DASHBOARD"}
     \/ currentUser = NoUser
  /\ currentStep # "STAGE_SELECTION"
  /\ Show("STAGE_SELECTION")
  /\ alert' = ""
  /\ UNCHANGED photo
  /\ UNCHANGED <<selectedStage, currentUser, deviceId, checkpoints,
                 isSubmitting, error, scanning, scanStage, submitTimer, store,
                 now>>
  /\ UNCHANGED aside

\* the BACK buttons of the checklist and of the scan screen
backToDeviceIdEntry ==
  /\ currentStep \in {"CHECKLIST", "SCAN_DEVICE_ID"}
  /\ Show("DEVICE_ID_ENTRY")
  /\ alert' = ""
  /\ UNCHANGED photo
  /\ UNCHANGED <<selectedStage, currentUser, deviceId, checkpoints,
                 isSubmitting, error, scanning, scanStage, submitTimer, store,
                 now>>
  /\ UNCHANGED aside

\* a logout that leaves the checklist behind
logoutKeepsChecklist ==
  /\ currentUser # NoUser \/ currentStep \in {"ADMIN", "DASHBOARD"}
  /\ currentUser' = NoUser
  /\ selectedStage' = NULL
  /\ deviceId' = <<>>
  /\ error' = ""
  /\ Show("STAGE_SELECTION")
  /\ alert' = ""
  /\ deviceImage' = NULL
  /\ UNCHANGED <<deviceImageRead, checkpoints, isSubmitting, scanning,
                 scanStage, submitTimer, store, now>>
  /\ UNCHANGED aside

logout ==
  /\ currentUser # NoUser \/ currentStep \in {"ADMIN", "DASHBOARD"}
  /\ currentUser' = NoUser
  /\ selectedStage' = NULL
  /\ deviceId' = <<>>
  /\ checkpoints' = <<>>
  /\ error' = ""
  /\ Show("STAGE_SELECTION")
  /\ alert' = ""
  /\ deviceImage' = NULL
  /\ UNCHANGED deviceImageRead
  /\ UNCHANGED <<isSubmitting, scanning, scanStage, submitTimer, store, now>>
  /\ UNCHANGED aside

\* a next device that keeps the photo of the last one
resetAppKeepsPhoto ==
  /\ currentStep = "SUCCESS"
  /\ deviceId' = <<>>
  /\ checkpoints' = <<>>
  /\ Show("DEVICE_ID_ENTRY")
  /\ alert' = ""
  /\ UNCHANGED <<photo, selectedStage, currentUser, isSubmitting, error,
                 scanning, scanStage, submitTimer, store, now>>
  /\ UNCHANGED aside

resetApp ==
  /\ currentStep = "SUCCESS"
  /\ deviceId' = <<>>
  /\ checkpoints' = <<>>
  /\ Show("DEVICE_ID_ENTRY")
  /\ alert' = ""
  /\ deviceImage' = NULL
  /\ UNCHANGED deviceImageRead
  /\ UNCHANGED <<selectedStage, currentUser, isSubmitting, error, scanning,
                 scanStage, submitTimer, store, now>>
  /\ UNCHANGED aside

(***************************************************************************)
(* App.tsx: device identification                                          *)
(***************************************************************************)
\* onChange of the device input
typeDeviceId(text) ==
  /\ currentStep = "DEVICE_ID_ENTRY"
  /\ deviceId' = ToUpperCase(text)
  /\ alert' = ""
  /\ UNCHANGED photo
  /\ UNCHANGED <<currentStep, selectedStage, currentUser, checkpoints,
                 isSubmitting, error, scanner, submitTimer, store, now>>
  /\ UNCHANGED aside
  /\ UNCHANGED mounted

\* the photo input of the device screen, offered while there is no photo:
\* the handler awaits fileToBase64
pickDeviceImage ==
  /\ currentStep = "DEVICE_ID_ENTRY"
  /\ deviceImage = NULL
  /\ ~deviceImageRead
  /\ deviceImageRead' = TRUE
  /\ alert' = ""
  /\ UNCHANGED <<currentStep, selectedStage, currentUser, deviceId,
                 deviceImage, checkpoints, isSubmitting, error, scanner,
                 submitTimer, store, now>>
  /\ UNCHANGED aside
  /\ UNCHANGED mounted

\* fileToBase64 resolves: setDeviceImage
deviceImageLoaded ==
  /\ deviceImageRead
  /\ deviceImage' = "img"
  /\ deviceImageRead' = FALSE
  /\ alert' = ""
  /\ UNCHANGED <<currentStep, selectedStage, currentUser, deviceId,
                 checkpoints, isSubmitting, error, scanner, submitTimer, store,
                 now>>
  /\ UNCHANGED aside
  /\ UNCHANGED mounted

\* the remove button of the device photo
removeDeviceImage ==
  /\ currentStep = "DEVICE_ID_ENTRY"
  /\ deviceImage # NULL
  /\ deviceImage' = NULL
  /\ alert' = ""
  /\ UNCHANGED <<currentStep, selectedStage, currentUser, deviceId,
                 deviceImageRead, checkpoints, isSubmitting, error, scanner,
                 submitTimer, store, now>>
  /\ UNCHANGED aside
  /\ UNCHANGED mounted

openScanner ==
  /\ currentStep = "DEVICE_ID_ENTRY"
  /\ Show("SCAN_DEVICE_ID")
  /\ alert' = ""
  /\ UNCHANGED photo
  /\ UNCHANGED <<selectedStage, currentUser, deviceId, checkpoints,
                 isSubmitting, error, scanning, scanStage, submitTimer, store,
                 now>>
  /\ UNCHANGED aside

handleDeviceSubmit ==
  /\ currentStep = "DEVICE_ID_ENTRY"
  /\ IF Trim(deviceId) = <<>>
     THEN /\ error' = "MissingDeviceId"
          /\ UNCHANGED <<currentStep, videoStream, checkpoints, mounted>>
     ELSE IF ~canEnterStage(deviceStatuses, deviceId, selectedStage)
     THEN /\ error' = "StagePrerequisiteNotMet"
          /\ UNCHANGED <<currentStep, videoStream, checkpoints, mounted>>
     ELSE /\ error' = ""
          /\ checkpoints' = BuildChecklist(selectedStage)
          /\ Show("CHECKLIST")
  /\ alert' = ""
  /\ UNCHANGED photo
  /\ UNCHANGED <<selectedStage, currentUser, deviceId, isSubmitting, scanning,
                 scanStage, submitTimer, store, now>>
  /\ UNCHANGED aside

\* getUserMedia resolves (granted) or rejects (denied)
startScanning(granted) ==
  /\ currentStep = "SCAN_DEVICE_ID"
  /\ IF granted
     THEN /\ videoStream' = TRUE
          /\ scanning' = TRUE
          /\ scanStage' = IF scanning THEN scanStage ELSE selectedStage
          /\ frameLoop' = (frameLoop \/ ~scanning)
          /\ UNCHANGED error
     ELSE /\ error' = "CameraAccessDenied"
          /\ UNCHANGED <<scanner, frameLoop>>
  /\ alert' = ""
  /\ UNCHANGED photo
  /\ UNCHANGED <<currentStep, selectedStage, currentUser, deviceId,
                 checkpoints, isSubmitting, submitTimer, store, now>>
  /\ UNCHANGED <<pending, download>>
  /\ UNCHANGED mounted

stopScanning ==
  /\ currentStep = "SCAN_DEVICE_ID"
  /\ IF videoStream
     THEN /\ videoStream' = FALSE
          /\ scanning' = FALSE
          /\ scanStage' = NULL
     ELSE UNCHANGED scanner
  /\ alert' = ""
  /\ UNCHANGED photo
  /\ UNCHANGED <<currentStep, selectedStage, currentUser, deviceId,
                 checkpoints, isSubmitting, error, submitTimer, store, now>>
  /\ UNCHANGED aside
  /\ UNCHANGED mounted

\* a frame in which jsQR finds a code
detectCode(code) ==
  /\ currentStep = "SCAN_DEVICE_ID"
  /\ scanning
  /\ videoStream
  /\ deviceId' = code
  /\ checkpoints' = BuildChecklist(scanStage)
  /\ currentStep' = "CHECKLIST"
  /\ videoStream' = FALSE
  /\ scanning' = FALSE
  /\ scanStage' = NULL
  /\ \E others \in BOOLEAN : frameLoop' = (frameLoop /\ others)
  /\ alert' = ""
  /\ UNCHANGED photo
  /\ UNCHANGED <<selectedStage, currentUser, isSubmitting, error, submitTimer,
                 store, now>>
  /\ UNCHANGED <<pending, download>>
  /\ UNCHANGED mounted

\* a callback of setInterval on the scan screen: detectCode finds no code in
\* the frame and requests an animation frame
pollTick ==
  /\ scanning
  /\ currentStep = "SCAN_DEVICE_ID"
  /\ ~frameLoop
  /\ frameLoop' = TRUE
  /\ alert' = ""
  /\ UNCHANGED photo
  /\ UNCHANGED <<currentStep, selectedStage, currentUser, deviceId,
                 checkpoints, isSubmitting, error, scanner, submitTimer, store,
                 now>>
  /\ UNCHANGED <<pending, download>>
  /\ UNCHANGED mounted

\* a callback of requestAnimationFrame once the <video> is gone: detectCode
\* returns without another request.  (On the scan screen it finds no code
\* and requests the next frame, which changes nothing.)
animationFrame ==
  /\ frameLoop
  /\ currentStep # "SCAN_DEVICE_ID"
  /\ frameLoop' = FALSE
  /\ alert' = ""
  /\ UNCHANGED photo
  /\ UNCHANGED <<currentStep, selectedStage, currentUser, deviceId,
                 checkpoints, isSubmitting, error, scanner, submitTimer, store,
                 now>>
  /\ UNCHANGED <<pending, download>>
  /\ UNCHANGED mounted

(***************************************************************************)
(* App.tsx: the checklist                                                  *)
(***************************************************************************)
Ids(cps) == { cps[i].id : i \in 1..Len(cps) }

Shown(id) == { i \in 1..Len(checkpoints) : checkpoints[i].id = id }

\* handleCheckpointUpdate(id, { [field]: value })
handleCheckpointUpdate(id, field, value) ==
  /\ currentStep = "CHECKLIST"
  /\ checkpoints' = applyUpdate(checkpoints, id, field, value)
  /\ alert' = ""
  /\ UNCHANGED photo
  /\ UNCHANGED <<currentStep, selectedStage, currentUser, deviceId,
                 isSubmitting, error, scanner, submitTimer, store, now>>
  /\ UNCHANGED aside
  /\ UNCHANGED mounted

\* the Pass and Fail buttons of a checkpoint
setStatus(id, status) ==
  /\ id \in Ids(checkpoints)
  /\ handleCheckpointUpdate(id, "status", status)

\* the photo input, offered while the checkpoint has no image
setImage(id) ==
  /\ \E i \in Shown(id) : checkpoints[i].image = NULL
  /\ handleCheckpointUpdate(id, "image", "img")

\* the remove button of the photo
removeImage(id) ==
  /\ \E i \in Shown(id) : checkpoints[i].image # NULL
  /\ handleCheckpointUpdate(id, "image", NULL)

\* the reason textarea, offered while the checkpoint is failed
editReason(id, text) ==
  /\ \E i \in Shown(id) : checkpoints[i].status = "Fail"
  /\ handleCheckpointUpdate(id, "reason", text)

\* the label input of the checkpoint whose pencil was pressed
editLabel(id, text) ==
  /\ id \in Ids(checkpoints)
  /\ handleCheckpointUpdate(id, "label", text)

\* Date.now() has advanced by one of the given numbers of ms since the last
\* reading
handleAddCheckpoint(maxLen, ticks) ==
  /\ currentStep = "CHECKLIST"
  /\ Len(checkpoints) < maxLen
  /\ \E elapsed \in ticks :
       /\ (now % SUBMIT_DELAY) + elapsed <= MaxTicks
       /\ now' = now + elapsed
       /\ checkpoints' =
            Append(checkpoints,
                   [id |-> "custom_" \o ToString(now'), label |-> "New Checkpoint",
                    status |-> NULL, image |-> NULL, reason |-> <<>>])
  /\ alert' = ""
  /\ UNCHANGED photo
  /\ UNCHANGED <<currentStep, selectedStage, currentUser, deviceId,
                 isSubmitting, error, scanner, submitTimer, store>>
  /\ UNCHANGED aside
  /\ UNCHANGED mounted

handleDeleteCheckpoint(id) ==
  /\ currentStep = "CHECKLIST"
  /\ id \in Ids(checkpoints)
  /\ checkpoints' = filterOut(checkpoints, id)
  /\ alert' = ""
  /\ UNCHANGED photo
  /\ UNCHANGED <<currentStep, selectedStage, currentUser, deviceId,
                 isSubmitting, error, scanner, submitTimer, store, now>>
  /\ UNCHANGED aside
  /\ UNCHANGED mounted

(***************************************************************************)
(* App.tsx: the photo read and the reason suggestion of a checkpoint.  The *)
(* handler returns at its await; the rest runs when the promise settles,   *)
(* whatever is rendered by then.                                           *)
(***************************************************************************)
\* what is under way: the checkpoint id and the field its completion will
\* write, and, as history, the device under inspection when it was started
Read(id) == [id |-> id, field |-> "image", device |-> deviceId]
Suggestion(id) == [id |-> id, field |-> "reason", device |-> deviceId]

\* the photo input of a checkpoint, offered while it has no image
pickImage(id, maxPending) ==
  /\ currentStep = "CHECKLIST"
  /\ \E i \in Shown(id) : checkpoints[i].image = NULL
  /\ Read(id) \notin pending
  /\ Cardinality(pending) < maxPending
  /\ pending' = pending \cup { Read(id) }
  /\ alert' = ""
  /\ UNCHANGED photo
  /\ UNCHANGED <<currentStep, selectedStage, currentUser, deviceId,
                 checkpoints, isSubmitting, error, scanner, submitTimer, store,
                 now>>
  /\ UNCHANGED <<frameLoop, download>>
  /\ UNCHANGED mounted

\* fileToBase64 resolves: handleCheckpointUpdate(id, { image })
imageLoaded(op) ==
  /\ op \in pending
  /\ op.field = "image"
  /\ checkpoints' = applyUpdate(checkpoints, op.id, "image", "img")
  /\ pending' = pending \ { op }
  /\ alert' = ""
  /\ UNCHANGED photo
  /\ UNCHANGED <<currentStep, selectedStage, currentUser, deviceId,
                 isSubmitting, error, scanner, submitTimer, store, now>>
  /\ UNCHANGED <<frameLoop, download>>
  /\ UNCHANGED mounted

\* the AI Assist button, offered while the checkpoint is failed
handleAIReason(id, maxPending) ==
  /\ currentStep = "CHECKLIST"
  /\ \E i \in Shown(id) : checkpoints[i].status = "Fail"
  /\ Suggestion(id) \notin pending
  /\ Cardinality(pending) < maxPending
  /\ pending' = pending \cup { Suggestion(id) }
  /\ alert' = ""
  /\ UNCHANGED photo
  /\ UNCHANGED <<currentStep, selectedStage, currentUser, deviceId,
                 checkpoints, isSubmitting, error, scanner, submitTimer, store,
                 now>>
  /\ UNCHANGED <<frameLoop, download>>
  /\ UNCHANGED mounted

\* a completion that writes to the head of the list
suggestionSettledAtHead(op, response) ==
  /\ op \in pending
  /\ op.field = "reason"
  /\ checkpoints # <<>>
  /\ checkpoints' =
       [checkpoints EXCEPT ![1].reason = suggestFailureReason(response)]
  /\ pending' = pending \ { op }
  /\ alert' = ""
  /\ UNCHANGED photo
  /\ UNCHANGED <<currentStep, selectedStage, currentUser, deviceId,
                 isSubmitting, error, scanner, submitTimer, store, now>>
  /\ UNCHANGED <<frameLoop, download>>
  /\ UNCHANGED mounted

\* suggestFailureReason settles: handleCheckpointUpdate(id, { reason })
suggestionSettled(op, response) ==
  /\ op \in pending
  /\ op.field = "reason"
  /\ checkpoints' =
       applyUpdate(checkpoints, op.id, "reason", suggestFailureReason(response))
  /\ pending' = pending \ { op }
  /\ alert' = ""
  /\ UNCHANGED photo
  /\ UNCHANGED <<currentStep, selectedStage, currentUser, deviceId,
                 isSubmitting, error, scanner, submitTimer, store, now>>
  /\ UNCHANGED <<frameLoop, download>>
  /\ UNCHANGED mounted

(***************************************************************************)
(* App.tsx: submission.  handleFinalSubmit builds the report and arms the *)
(* timer; the timer's callback stores it SUBMIT_DELAY ms later.            *)
(***************************************************************************)
\* the report handleFinalSubmit builds at time t
Report(stage, user, d, cps, t) ==
  [id |-> "REP-" \o ToString(t),
   timestamp |-> ToISOString(t),
   stage |-> stage,
   userId |-> IF user # NoUser THEN user.userId ELSE "Unknown",
   deviceId |-> d,
   checkpoints |-> cps]

\* what the callback of setTimeout closes over: the report, deviceId and
\* selectedStage of the render that submitted
Timer(stage, user, d, cps, t) ==
  [report |-> Report(stage, user, d, cps, t), deviceId |-> d, stage |-> stage,
   due |-> t + SUBMIT_DELAY]

handleFinalSubmit(maxReports) ==
  /\ currentStep = "CHECKLIST"
  /\ ~isSubmitting
  /\ IF ~canSubmit(checkpoints)
     THEN /\ alert' = "IncompleteChecklist"
          /\ UNCHANGED <<isSubmitting, submitTimer>>
     ELSE /\ Len(reports) < maxReports
          /\ isSubmitting' = TRUE
          /\ submitTimer' =
               Timer(selectedStage, currentUser, deviceId, checkpoints, now)
          /\ alert' = ""
  /\ UNCHANGED <<currentStep, selectedStage, currentUser, deviceId, photo,
                 checkpoints, error, scanner, store, now>>
  /\ UNCHANGED aside
  /\ UNCHANGED mounted

\* the device-status writes of one stored report: saveReport's own, then
\* the one of the timer callback
\* a callback that leaves the status to saveReport
writesOfSaveReport(timer) ==
  << [deviceId |-> timer.report.deviceId, stage |-> timer.report.stage,
      status |-> saveReportStatus(timer.report)] >>

\* the device-status writes of the callback: the one inside saveReport, then
\* its own
writesOf(timer) ==
  << [deviceId |-> timer.report.deviceId, stage |-> timer.report.stage,
      status |-> saveReportStatus(timer.report)],
     [deviceId |-> timer.deviceId, stage |-> timer.stage,
      status |-> outcomeOf(timer.report.checkpoints)] >>

RECURSIVE applyWrites(_, _, _)
applyWrites(statuses, writes, t) ==
  IF writes = <<>> THEN statuses
  ELSE applyWrites(updateDeviceStatus(statuses, Head(writes).deviceId,
                                      Head(writes).stage, Head(writes).status, t),
                   Tail(writes), t)

\* the store after the callback of timer ran at time t: saveReport, then
\* updateDeviceStatus
Stored(st, timer, t) ==
  [reports |-> saveReportPush(st.reports, timer.report),
   deviceStatuses |-> applyWrites(st.deviceStatuses, writesOf(timer), t),
   statusWrites |-> writesOf(timer),
   now |-> t]

\* a callback that acts only while the checklist it was started from is shown
submitTimeoutOnChecklist ==
  /\ submitTimer # NoTimer
  /\ currentStep = "CHECKLIST"
  /\ LET st == Stored([reports |-> reports, deviceStatuses |-> deviceStatuses],
                      submitTimer, Max(now, submitTimer.due))
     IN /\ now' = st.now
        /\ reports' = st.reports
        /\ statusWrites' = st.statusWrites
        /\ deviceStatuses' = st.deviceStatuses
  /\ isSubmitting' = FALSE
  /\ submitTimer' = NoTimer
  /\ Show("SUCCESS")
  /\ alert' = ""
  /\ UNCHANGED photo
  /\ UNCHANGED <<selectedStage, currentUser, deviceId, checkpoints, error,
                 scanning, scanStage, users>>
  /\ UNCHANGED aside

\* the callback of the timer
submitTimeout ==
  /\ submitTimer # NoTimer
  /\ LET st == Stored([reports |-> reports, deviceStatuses |-> deviceStatuses],
                      submitTimer, Max(now, submitTimer.due))
     IN /\ now' = st.now
        /\ reports' = st.reports
        /\ statusWrites' = st.statusWrites
        /\ deviceStatuses' = st.deviceStatuses
  /\ isSubmitting' = FALSE
  /\ submitTimer' = NoTimer
  /\ Show("SUCCESS")
  /\ alert' = ""
  /\ UNCHANGED photo
  /\ UNCHANGED <<selectedStage, currentUser, deviceId, checkpoints, error,
                 scanning, scanStage, users>>
  /\ UNCHANGED aside

(***************************************************************************)
(* App.tsx: the admin console                                              *)
(***************************************************************************)
openDashboard ==
  /\ currentStep = "ADMIN"
  /\ Show("DASHBOARD")
  /\ alert' = ""
  /\ UNCHANGED photo
  /\ UNCHANGED <<selectedStage, currentUser, deviceId, checkpoints,
                 isSubmitting, error, scanning, scanStage, submitTimer, store,
                 now>>
  /\ UNCHANGED aside

\* "Manage Users" of the dashboard
openAdmin ==
  /\ currentStep = "DASHBOARD"
  /\ Show("ADMIN")
  /\ alert' = ""
  /\ UNCHANGED photo
  /\ UNCHANGED <<selectedStage, currentUser, deviceId, checkpoints,
                 isSubmitting, error, scanning, scanStage, submitTimer, store,
                 now>>
  /\ UNCHANGED aside

(***************************************************************************)
(* App.tsx: the CSV export, the same code in App for the dashboard and in  *)
(* AdminPanel for the admin console.                                       *)
(***************************************************************************)
\* String(s) of a string the model holds as one token
Text(s) == IF s = "" THEN <<>> ELSE << s >>

RECURSIVE Digits(_)
\* the text of a timestamp
Digits(ds) ==
  IF ds = <<>> THEN <<>> ELSE << ToString(Head(ds)) >> \o Digits(Tail(ds))

RECURSIVE replaceQuotes(_)
\* .replace(/"/g, '""')
replaceQuotes(text) ==
  IF text = <<>> THEN <<>>
  ELSE (IF Head(text) = QUOTE THEN << QUOTE, QUOTE >> ELSE << Head(text) >>)
       \o replaceQuotes(Tail(text))

\* an escape that only wraps
escapeWrapOnly(val) == << QUOTE >> \o val \o << QUOTE >>

\* `"${String(val || '').replace(/"/g, '""')}"`; the values are strings, of
\* which the empty one is the falsy one
escape(val) == << QUOTE >> \o replaceQuotes(val) \o << QUOTE >>

\* `${cp.label}: ${cp.status || 'N/A'}` and the reason of a failed checkpoint
checkpointSummary(cp) ==
  Text(cp.label) \o << ": " >>
  \o (IF cp.status = NULL THEN << "N/A" >> ELSE << cp.status >>)
  \o (IF cp.status = "Fail"
      THEN << " (Reason: " >>
           \o (IF cp.reason = <<>> THEN << "Not provided" >> ELSE cp.reason)
           \o << ")" >>
      ELSE <<>>)

RECURSIVE joinSummaries(_)
\* r.checkpoints.map(...).join(' | ')
joinSummaries(cps) ==
  IF cps = <<>> THEN <<>>
  ELSE IF Len(cps) = 1 THEN checkpointSummary(Head(cps))
  ELSE checkpointSummary(Head(cps)) \o << " | " >> \o joinSummaries(Tail(cps))

\* the values of the fields of the row of a report
fieldsOf(r) ==
  << Text(r.id), Digits(r.timestamp), Text(r.stage), Text(r.userId),
     r.deviceId, joinSummaries(r.checkpoints) >>

RECURSIVE escapeAll(_)
escapeAll(values) ==
  IF values = <<>> THEN <<>>
  ELSE << escape(Head(values)) >> \o escapeAll(Tail(values))

RECURSIVE rowsOf(_)
\* reports.map(r => [escape(r.id), ...]): a row is the list of the fields
\* that join(',') puts on a line
rowsOf(reps) ==
  IF reps = <<>> THEN <<>>
  ELSE << escapeAll(fieldsOf(Head(reps))) >> \o rowsOf(Tail(reps))

HEADERS ==
  << "Report ID", "Timestamp", "Stage", "User ID", "Device ID",
     "Checkpoints Summary" >>

\* the lines of the file: the headers as they are, then the rows
csvContent(reps) == [headers |-> HEADERS, rows |-> rowsOf(reps)]

\* the body of the two handlers
exportReports ==
  /\ IF Len(reports) = 0
     THEN /\ alert' = "No reports available to export."
          /\ UNCHANGED download
     ELSE /\ download' = csvContent(reports)
          /\ alert' = ""
  /\ UNCHANGED photo
  /\ UNCHANGED <<currentStep, selectedStage, currentUser, deviceId,
                 checkpoints, isSubmitting, error, scanner, submitTimer, store,
                 now>>
  /\ UNCHANGED <<pending, frameLoop>>
  /\ UNCHANGED mounted

\* "Export Reports" of the dashboard
handleExportCSV ==
  /\ currentStep = "DASHBOARD"
  /\ exportReports

\* "Export Reports" of the admin console
AdminPanel_handleExportCSV ==
  /\ currentStep = "ADMIN"
  /\ exportReports

(***************************************************************************)
(* App.tsx: AdminPanel.  Its users state is loaded from the store when it  *)
(* is mounted and saved with every change, so the Users collection stands  *)
(* for both.  The form fields are the arguments of handleSubmit.           *)
(***************************************************************************)
\* String.prototype.toLowerCase on the texts in use
LowerText(text) ==
  CASE text = "OP1" -> "op1"
    [] text = " OP1 " -> " op1 "
    [] text = "ADMIN" -> "admin"
    [] OTHER -> text

\* String.prototype.trim on the texts in use
TrimText(text) ==
  CASE text = " " -> ""
    [] text = " op1 " -> "op1"
    [] text = " OP1 " -> "OP1"
    [] OTHER -> text

RECURSIVE updateUsers(_, _, _, _)
\* users.map(u => u.userId === id ? { ...u, password, assignedStage } : u)
updateUsers(us, id, password, stage) ==
  IF us = <<>> THEN <<>>
  ELSE << IF Head(us).userId = id
          THEN [Head(us) EXCEPT !.password = password, !.assignedStage = stage]
          ELSE Head(us) >>
       \o updateUsers(Tail(us), id, password, stage)

RECURSIVE toggleUsers(_, _)
\* users.map(u => u.userId === id ? { ...u, isActive: !u.isActive } : u)
toggleUsers(us, id) ==
  IF us = <<>> THEN <<>>
  ELSE << IF Head(us).userId = id
          THEN [Head(us) EXCEPT !.isActive = ~@]
          ELSE Head(us) >>
       \o toggleUsers(Tail(us), id)

RECURSIVE filterUsers(_, _)
\* users.filter(u => u.userId !== id)
filterUsers(us, id) ==
  IF us = <<>> THEN <<>>
  ELSE IF Head(us).userId = id THEN filterUsers(Tail(us), id)
  ELSE <<Head(us)>> \o filterUsers(Tail(us), id)

\* Array.prototype.find; NotFound stands for undefined
\* hits are the places of the users that pass the test
findFirst(us, hits) ==
  IF hits # {}
  THEN us[CHOOSE i \in hits : \A j \in hits : i <= j]
  ELSE NotFound

\* searchResult holds a user
Found == searchResult \notin {NotSearched, NotFound}

\* the users whose row offers the edit and delete buttons, and the one of the
\* result card of the search
Editable ==
  { users[i] : i \in { k \in 1..Len(users) : ~users[k].isAdmin } }
  \cup (IF hasSearched /\ Found THEN {searchResult} ELSE {})

\* the users whose row has the status button enabled
Switchable == { users[i] : i \in { k \in 1..Len(users) : ~users[k].isAdmin } }

\* a registration that makes an administrator of whoever is named admin
handleSubmitNamedAdmin(newUserId, newPassword, newStage, maxUsers) ==
  /\ currentStep = "ADMIN"
  /\ editingUserId # NULL => newUserId = editingUserId
  /\ IF newUserId = "" \/ newPassword = ""
     THEN UNCHANGED <<users, editingUserId, hasSearched>>
     ELSE IF editingUserId # NULL
     THEN /\ users' = updateUsers(users, editingUserId, newPassword, newStage)
          /\ editingUserId' = NULL
          /\ hasSearched' = FALSE
     ELSE /\ Len(users) < maxUsers
          /\ users' = Append(users, [Operator(newUserId, newPassword, newStage)
                                      EXCEPT !.isAdmin = (newUserId = "admin")])
          /\ hasSearched' = FALSE
          /\ UNCHANGED editingUserId
  /\ alert' = ""
  /\ UNCHANGED photo
  /\ UNCHANGED <<currentStep, selectedStage, currentUser, deviceId,
                 checkpoints, isSubmitting, error, scanner, submitTimer,
                 reports, deviceStatuses, statusWrites, now>>
  /\ UNCHANGED <<searchQuery, searchStage, searchResult, dashboard>>
  /\ UNCHANGED aside

\* the form: "Add Operator", or "Update Operator Profile" while editing (the
\* User ID input is disabled then and holds the id under edit)
handleSubmit(newUserId, newPassword, newStage, maxUsers) ==
  /\ currentStep = "ADMIN"
  /\ editingUserId # NULL => newUserId = editingUserId
  /\ IF newUserId = "" \/ newPassword = ""
     THEN UNCHANGED <<users, editingUserId, hasSearched>>
     ELSE IF editingUserId # NULL
     THEN /\ users' = updateUsers(users, editingUserId, newPassword, newStage)
          /\ editingUserId' = NULL
          /\ hasSearched' = FALSE
     ELSE /\ Len(users) < maxUsers
          /\ users' = Append(users, Operator(newUserId, newPassword, newStage))
          /\ hasSearched' = FALSE
          /\ UNCHANGED editingUserId
  /\ alert' = ""
  /\ UNCHANGED photo
  /\ UNCHANGED <<currentStep, selectedStage, currentUser, deviceId,
                 checkpoints, isSubmitting, error, scanner, submitTimer,
                 reports, deviceStatuses, statusWrites, now>>
  /\ UNCHANGED <<searchQuery, searchStage, searchResult, dashboard>>
  /\ UNCHANGED aside

handleEdit(user) ==
  /\ currentStep = "ADMIN"
  /\ user \in Editable
  /\ editingUserId' = user.userId
  /\ alert' = ""
  /\ UNCHANGED photo
  /\ UNCHANGED <<currentStep, selectedStage, currentUser, deviceId,
                 checkpoints, isSubmitting, error, scanner, submitTimer, store,
                 now>>
  /\ UNCHANGED <<searchQuery, searchStage, searchResult, hasSearched,
                 dashboard>>
  /\ UNCHANGED aside

cancelEdit ==
  /\ currentStep = "ADMIN"
  /\ editingUserId # NULL
  /\ editingUserId' = NULL
  /\ alert' = ""
  /\ UNCHANGED photo
  /\ UNCHANGED <<currentStep, selectedStage, currentUser, deviceId,
                 checkpoints, isSubmitting, error, scanner, submitTimer, store,
                 now>>
  /\ UNCHANGED <<searchQuery, searchStage, searchResult, hasSearched,
                 dashboard>>
  /\ UNCHANGED aside

\* the delete buttons; confirmed is the answer to confirm()
deleteUser(userId, confirmed) ==
  /\ currentStep = "ADMIN"
  /\ \E u \in Editable : u.userId = userId
  /\ IF userId = "admin" \/ ~confirmed
     THEN UNCHANGED <<users, searchResult>>
     ELSE /\ users' = filterUsers(users, userId)
          /\ searchResult' = IF Found /\ searchResult.userId = userId
                             THEN NotFound
                             ELSE searchResult
  /\ alert' = ""
  /\ UNCHANGED photo
  /\ UNCHANGED <<currentStep, selectedStage, currentUser, deviceId,
                 checkpoints, isSubmitting, error, scanner, submitTimer,
                 reports, deviceStatuses, statusWrites, now>>
  /\ UNCHANGED <<editingUserId, searchQuery, searchStage, hasSearched,
                 dashboard>>
  /\ UNCHANGED aside

\* a switch that does not spare the admin account
toggleStatusOfAnyone(userId) ==
  /\ currentStep = "ADMIN"
  /\ \E u \in Switchable : u.userId = userId
  /\ LET updated == toggleUsers(users, userId)
     IN /\ users' = updated
        /\ searchResult' =
             IF Found /\ searchResult.userId = userId
             THEN findFirst(updated,
                            { i \in 1..Len(updated) : updated[i].userId = userId })
             ELSE searchResult
  /\ alert' = ""
  /\ UNCHANGED photo
  /\ UNCHANGED <<currentStep, selectedStage, currentUser, deviceId,
                 checkpoints, isSubmitting, error, scanner, submitTimer,
                 reports, deviceStatuses, statusWrites, now>>
  /\ UNCHANGED <<editingUserId, searchQuery, searchStage, hasSearched,
                 dashboard>>
  /\ UNCHANGED aside

\* the status button of a row
toggleStatus(userId) ==
  /\ currentStep = "ADMIN"
  /\ \E u \in Switchable : u.userId = userId
  /\ IF userId = "admin"
     THEN UNCHANGED <<users, searchResult>>
     ELSE LET updated == toggleUsers(users, userId)
          IN /\ users' = updated
             /\ searchResult' =
                  IF Found /\ searchResult.userId = userId
                  THEN findFirst(updated,
                            { i \in 1..Len(updated) : updated[i].userId = userId })
                  ELSE searchResult
  /\ alert' = ""
  /\ UNCHANGED photo
  /\ UNCHANGED <<currentStep, selectedStage, currentUser, deviceId,
                 checkpoints, isSubmitting, error, scanner, submitTimer,
                 reports, deviceStatuses, statusWrites, now>>
  /\ UNCHANGED <<editingUserId, searchQuery, searchStage, hasSearched,
                 dashboard>>
  /\ UNCHANGED aside

\* a search by id alone
handleSearchAnyStage(query, stage) ==
  /\ currentStep = "ADMIN"
  /\ searchQuery' = query
  /\ searchStage' = stage
  /\ IF TrimText(query) = ""
     THEN /\ hasSearched' = FALSE
          /\ searchResult' = NotSearched
     ELSE /\ searchResult' =
               findFirst(users,
                         { i \in 1..Len(users) :
                             LowerText(users[i].userId) = TrimText(LowerText(query)) })
          /\ hasSearched' = TRUE
  /\ alert' = ""
  /\ UNCHANGED photo
  /\ UNCHANGED <<currentStep, selectedStage, currentUser, deviceId,
                 checkpoints, isSubmitting, error, scanner, submitTimer, store,
                 now>>
  /\ UNCHANGED <<editingUserId, dashboard>>
  /\ UNCHANGED aside

\* the Search button, with the query typed and the stage chosen before it
handleSearch(query, stage) ==
  /\ currentStep = "ADMIN"
  /\ searchQuery' = query
  /\ searchStage' = stage
  /\ IF TrimText(query) = ""
     THEN /\ hasSearched' = FALSE
          /\ searchResult' = NotSearched
     ELSE /\ searchResult' =
               findFirst(users,
                         { i \in 1..Len(users) :
                             /\ LowerText(users[i].userId) = TrimText(LowerText(query))
                             /\ users[i].assignedStage = stage })
          /\ hasSearched' = TRUE
  /\ alert' = ""
  /\ UNCHANGED photo
  /\ UNCHANGED <<currentStep, selectedStage, currentUser, deviceId,
                 checkpoints, isSubmitting, error, scanner, submitTimer, store,
                 now>>
  /\ UNCHANGED <<editingUserId, dashboard>>
  /\ UNCHANGED aside

clearSearch ==
  /\ currentStep = "ADMIN"
  /\ hasSearched
  /\ searchQuery' = ""
  /\ hasSearched' = FALSE
  /\ searchResult' = NotSearched
  /\ alert' = ""
  /\ UNCHANGED photo
  /\ UNCHANGED <<currentStep, selectedStage, currentUser, deviceId,
                 checkpoints, isSubmitting, error, scanner, submitTimer, store,
                 now>>
  /\ UNCHANGED <<editingUserId, searchStage, dashboard>>
  /\ UNCHANGED aside

(***************************************************************************)
(* The program.                                                            *)
(***************************************************************************)
Navigate ==
  \/ \E stage \in Stages : handleStageSelect(stage)
  \/ handleAdminAccess
  \/ \E c \in Credentials : handleLogin(c[1], c[2])
  \/ backToStageSelection
  \/ backToDeviceIdEntry
  \/ logout
  \/ openDashboard
  \/ openAdmin

Identify ==
  \/ \E text \in TypedIds : typeDeviceId(text)
  \/ openScanner
  \/ handleDeviceSubmit
  \/ \E granted \in BOOLEAN : startScanning(granted)
  \/ stopScanning
  \/ \E code \in ScanCodes : detectCode(code)

Edit(reasons, maxLen) ==
  \/ \E id \in Ids(checkpoints), status \in {"Pass", "Fail"} : setStatus(id, status)
  \/ \E id \in Ids(checkpoints) : setImage(id)
  \/ \E id \in Ids(checkpoints) : removeImage(id)
  \/ \E id \in Ids(checkpoints), text \in reasons : editReason(id, text)
  \/ handleAddCheckpoint(maxLen, {1})
  \/ \E id \in Ids(checkpoints) : handleDeleteCheckpoint(id)

Submit(maxReports) ==
  \/ handleFinalSubmit(maxReports)
  \/ submitTimeout

(***************************************************************************)
(* Stores that earlier sessions left in localStorage.                      *)
(***************************************************************************)
RECURSIVE Inspected(_, _, _)
\* a checklist with every checkpoint photographed and judged
Inspected(cps, status, reason) ==
  IF cps = <<>> THEN <<>>
  ELSE << [Head(cps) EXCEPT !.status = status, !.image = "img",
                            !.reason = reason] >>
       \o Inspected(Tail(cps), status, reason)

EmptyStore ==
  [reports |-> <<>>, deviceStatuses |-> <<>>, statusWrites |-> <<>>, now |-> 0]

\* an earlier submission of the whole template for device d, made at st.now
Earlier(st, stage, user, d, status, reason) ==
  Stored(st,
         Timer(stage, user, d, Inspected(BuildChecklist(stage), status, reason),
               st.now),
         st.now + SUBMIT_DELAY)

DeviceA == <<"A">>
FqcPassed == Earlier(EmptyStore, "FQC", Directory[2], DeviceA, "Pass", <<>>)
FqcFailed == Earlier(EmptyStore, "FQC", Directory[2], DeviceA, "Fail", <<"x">>)
PackagingFailed == Earlier(FqcPassed, "Packaging", Directory[3], DeviceA, "Fail", <<"x">>)
PackagingOnly == Earlier(EmptyStore, "Packaging", Directory[3], DeviceA, "Pass", <<>>)

PersistedStores ==
  { EmptyStore, FqcPassed, FqcFailed, PackagingFailed, PackagingOnly }

RECURSIVE Judged(_, _)
\* a checklist whose checkpoints were named, photographed and judged as the
\* items say: << label, status, reason >>
Judged(items, k) ==
  IF items = <<>> THEN <<>>
  ELSE << [id |-> IF k = 1 THEN "fqc_01" ELSE "custom_" \o ToString(k),
           label |-> Head(items)[1], status |-> Head(items)[2],
           image |-> "img", reason |-> Head(items)[3]] >>
       \o Judged(Tail(items), k + 1)

Failed(label) == << label, "Fail", <<"x">> >>

\* inspections of FQC as the operators submit them
Submissions ==
  { [deviceId |-> <<"A">>,
     items |-> << Failed("Check for outer body") >>],
    [deviceId |-> <<"B">>,
     items |-> << Failed("2"), Failed("1") >>],
    [deviceId |-> <<"B">>,
     items |-> << Failed("Seal"), Failed("Label"),
                  << "Check for outer body", "Pass", <<>> >> >>],
    [deviceId |-> <<"C">>,
     items |-> << Failed("Screws"), Failed("Hinge"), Failed("Port"),
                  Failed("Lens"), Failed("Gasket"), Failed("Label") >>],
    [deviceId |-> <<"D", QUOTE>>,
     items |-> << << "Check for outer body", "Fail",
                     << "He said ", QUOTE, "hi", QUOTE >> >> >>] }

RECURSIVE Rounds(_)
\* the sequences of up to n submissions
Rounds(n) ==
  IF n = 0 THEN { <<>> }
  ELSE Rounds(n - 1)
       \cup { Append(round, sub) : round \in Rounds(n - 1), sub \in Submissions }

RECURSIVE StoreAfter(_)
\* the store after op1 submitted the inspections of a round one by one
StoreAfter(round) ==
  IF round = <<>> THEN EmptyStore
  ELSE LET st == StoreAfter(SubSeq(round, 1, Len(round) - 1))
           sub == round[Len(round)]
       IN Stored(st,
                 Timer("FQC", Directory[2], sub.deviceId,
                       Judged(sub.items, 1), st.now),
                 st.now + SUBMIT_DELAY)

DashboardStores == { StoreAfter(round) : round \in Rounds(MaxDashboardReports) }

\* no asynchronous work under way, nothing mounted, nothing exported
Idle ==
  /\ pending = {}
  /\ frameLoop = FALSE
  /\ editingUserId = NULL
  /\ searchQuery = ""
  /\ searchStage = "FQC"
  /\ searchResult = NotSearched
  /\ hasSearched = FALSE
  /\ dashboard = NoView
  /\ download = NoDownload

\* the App component as constructed over the store st
Constructed(st) ==
  /\ currentStep = "STAGE_SELECTION"
  /\ selectedStage = NULL
  /\ currentUser = NoUser
  /\ deviceId = <<>>
  /\ deviceImage = NULL
  /\ deviceImageRead = FALSE
  /\ checkpoints = <<>>
  /\ isSubmitting = FALSE
  /\ error = ""
  /\ scanning = FALSE
  /\ videoStream = FALSE
  /\ scanStage = NULL
  /\ submitTimer = NoTimer
  /\ users = Directory
  /\ reports = st.reports
  /\ deviceStatuses = st.deviceStatuses
  /\ statusWrites = st.statusWrites
  /\ alert = ""
  /\ now = st.now
  /\ Idle

(***************************************************************************)
(* Spec: inspection rounds by manual entry, from the state after          *)
(* construction over a store that holds the registered users and no       *)
(* report yet.                                                             *)
(***************************************************************************)
Init == Constructed(EmptyStore)

Next ==
  \/ \E stage \in Stages : handleStageSelect(stage)
  \/ \E c \in FlowCredentials : handleLogin(c[1], c[2])
  \/ logout
  \/ resetApp
  \/ \E text \in FlowIds : typeDeviceId(text)
  \/ handleDeviceSubmit
  \/ \E id \in Ids(checkpoints), status \in {"Pass", "Fail"} : setStatus(id, status)
  \/ \E id \in Ids(checkpoints) : setImage(id)
  \/ \E id \in Ids(checkpoints), text \in FlowReasons : editReason(id, text)
  \/ Submit(MaxReports)

Spec == Init /\ [][Next]_vars

(***************************************************************************)
(* SpecSession: the inspection rounds of Spec together with the admin     *)
(* console, the dashboard and the BACK buttons, over the store that an    *)
(* earlier FQC inspection left.                                            *)
(***************************************************************************)
NextSession ==
  \/ \E stage \in Stages : handleStageSelect(stage)
  \/ handleAdminAccess
  \/ \E c \in FlowCredentials \cup { <<"admin", "123">> } : handleLogin(c[1], c[2])
  \/ backToStageSelection
  \/ backToDeviceIdEntry
  \/ logout
  \/ resetApp
  \/ openDashboard
  \/ openAdmin
  \/ \E text \in SessionIds : typeDeviceId(text)
  \/ handleDeviceSubmit
  \/ \E id \in Ids(checkpoints), status \in {"Pass", "Fail"} : setStatus(id, status)
  \/ \E id \in Ids(checkpoints) : setImage(id)
  \/ \E id \in Ids(checkpoints), text \in FlowReasons : editReason(id, text)
  \/ Submit(Len(FqcPassed.reports) + MaxSessionReports)

InitSession == Constructed(FqcPassed)

SpecSession == InitSession /\ [][NextSession]_vars

(***************************************************************************)
(* SpecEntry: authorization and device identification, scanner included,  *)
(* over the persisted stores.                                              *)
(***************************************************************************)
InitEntry == \E st \in PersistedStores : Constructed(st)

NextEntry == Navigate \/ Identify

SpecEntry == InitEntry /\ [][NextEntry]_vars

(***************************************************************************)
(* SpecRound: whole rounds of one operator at a time, by manual entry or   *)
(* by scan, with the device photo, the BACK buttons and logout.            *)
(***************************************************************************)
NextRound ==
  \/ \E stage \in Stages : handleStageSelect(stage)
  \/ \E c \in FlowCredentials : handleLogin(c[1], c[2])
  \/ backToStageSelection
  \/ backToDeviceIdEntry
  \/ logout
  \/ resetApp
  \/ \E text \in SessionIds : typeDeviceId(text)
  \/ pickDeviceImage
  \/ deviceImageLoaded
  \/ removeDeviceImage
  \/ openScanner
  \/ handleDeviceSubmit
  \/ startScanning(TRUE)
  \/ stopScanning
  \/ \E code \in ScanCodes : detectCode(code)
  \/ \E id \in Ids(checkpoints) : setStatus(id, "Pass")
  \/ \E id \in Ids(checkpoints) : setImage(id)
  \/ Submit(MaxRoundReports)

SpecRound == Init /\ [][NextRound]_vars

(***************************************************************************)
(* SpecScan: the scan screen with its poll (the interval that lives while *)
(* scanning is set, and the animation frames detectCode requests), entered *)
(* and left in every way the screens allow.                                *)
(***************************************************************************)
NextScan ==
  \/ \E stage \in Stages : handleStageSelect(stage)
  \/ \E c \in FlowCredentials : handleLogin(c[1], c[2])
  \/ backToStageSelection
  \/ backToDeviceIdEntry
  \/ logout
  \/ \E text \in SessionIds : typeDeviceId(text)
  \/ openScanner
  \/ handleDeviceSubmit
  \/ \E granted \in BOOLEAN : startScanning(granted)
  \/ stopScanning
  \/ \E code \in DecodedCodes : detectCode(code)
  \/ pollTick
  \/ animationFrame

SpecScan == Init /\ [][NextScan]_vars

(***************************************************************************)
(* SpecAdmin: the administrator at work on the Users collection, from the  *)
(* first start in a browser whose localStorage holds no users yet.         *)
(***************************************************************************)
Fresh ==
  /\ currentStep = "STAGE_SELECTION"
  /\ selectedStage = NULL
  /\ currentUser = NoUser
  /\ deviceId = <<>>
  /\ deviceImage = NULL
  /\ deviceImageRead = FALSE
  /\ checkpoints = <<>>
  /\ isSubmitting = FALSE
  /\ error = ""
  /\ scanning = FALSE
  /\ videoStream = FALSE
  /\ scanStage = NULL
  /\ submitTimer = NoTimer
  /\ users = NoUsers
  /\ reports = EmptyStore.reports
  /\ deviceStatuses = EmptyStore.deviceStatuses
  /\ statusWrites = EmptyStore.statusWrites
  /\ alert = ""
  /\ now = EmptyStore.now
  /\ Idle

NewUserIds == { "", "op1", "admin" }
NewPasswords == { "", "p1" }
SearchQueries == { " ", "op1", " OP1 ", "admin" }
AdminCredentials == { <<"admin", "123">>, <<"admin", "p1">>, <<"op1", "p1">> }

NextAdmin ==
  \/ handleAdminAccess
  \/ \E c \in AdminCredentials : handleLogin(c[1], c[2])
  \/ logout
  \/ \E id \in NewUserIds, password \in NewPasswords, stage \in Stages :
       handleSubmit(id, password, stage, MaxUsers)
  \/ currentStep = "ADMIN" /\ \E user \in Editable : handleEdit(user)
  \/ cancelEdit
  \/ /\ currentStep = "ADMIN"
     /\ \E user \in Editable, confirmed \in BOOLEAN :
          deleteUser(user.userId, confirmed)
  \/ currentStep = "ADMIN" /\ \E user \in Switchable : toggleStatus(user.userId)
  \/ \E query \in SearchQueries, stage \in Stages : handleSearch(query, stage)
  \/ clearSearch

SpecAdmin == Fresh /\ [][NextAdmin]_vars

(***************************************************************************)
(* SpecDashboard: the administrator at the admin console and the          *)
(* dashboard, over the stores that rounds of inspections leave.            *)
(***************************************************************************)
InitDashboard == \E st \in DashboardStores : Constructed(st)

NextDashboard ==
  \/ handleAdminAccess
  \/ \E c \in { <<"admin", "123">>, <<"op1", "p1">> } : handleLogin(c[1], c[2])
  \/ backToStageSelection
  \/ logout
  \/ openDashboard
  \/ openAdmin
  \/ handleExportCSV
  \/ AdminPanel_handleExportCSV

SpecDashboard == InitDashboard /\ [][NextDashboard]_vars

(***************************************************************************)
(* SpecLogin: stage selection, login and the way back, over the Users     *)
(* collections an administrator can leave.                                 *)
(***************************************************************************)
Loaded(st, us) ==
  /\ currentStep = "STAGE_SELECTION"
  /\ selectedStage = NULL
  /\ currentUser = NoUser
  /\ deviceId = <<>>
  /\ deviceImage = NULL
  /\ deviceImageRead = FALSE
  /\ checkpoints = <<>>
  /\ isSubmitting = FALSE
  /\ error = ""
  /\ scanning = FALSE
  /\ videoStream = FALSE
  /\ scanStage = NULL
  /\ submitTimer = NoTimer
  /\ users = us
  /\ reports = st.reports
  /\ deviceStatuses = st.deviceStatuses
  /\ statusWrites = st.statusWrites
  /\ alert = ""
  /\ now = st.now
  /\ Idle

InitLogin == \E us \in LoginDirectories : Loaded(FqcPassed, us)

NextLogin ==
  \/ \E stage \in Stages : handleStageSelect(stage)
  \/ handleAdminAccess
  \/ \E c \in LoginCredentials : handleLogin(c[1], c[2])
  \/ backToStageSelection
  \/ logout
  \/ openDashboard
  \/ openAdmin
  \/ \E text \in TypedIds : typeDeviceId(text)

SpecLogin == InitLogin /\ [][NextLogin]_vars

(***************************************************************************)
(* SpecChecklist: one inspection, from the freshly built checklist to the *)
(* stored report, with every edit of the checklist.                        *)
(***************************************************************************)
Inspecting(st, user, d) ==
  /\ currentStep = "CHECKLIST"
  /\ selectedStage = user.assignedStage
  /\ currentUser = user
  /\ deviceId = d
  /\ deviceImage = NULL
  /\ deviceImageRead = FALSE
  /\ checkpoints = BuildChecklist(user.assignedStage)
  /\ isSubmitting = FALSE
  /\ error = ""
  /\ scanning = FALSE
  /\ videoStream = FALSE
  /\ scanStage = NULL
  /\ submitTimer = NoTimer
  /\ users = Directory
  /\ reports = st.reports
  /\ deviceStatuses = st.deviceStatuses
  /\ statusWrites = st.statusWrites
  /\ alert = ""
  /\ now = st.now
  /\ Idle

InitChecklist ==
  \/ Inspecting(EmptyStore, Directory[2], DeviceA)
  \/ Inspecting(FqcPassed, Directory[3], DeviceA)

NextChecklist ==
  \/ Edit(Reasons, MaxCheckpoints)
  \/ Submit(Len(reports) + 1)

SpecChecklist == InitChecklist /\ [][NextChecklist]_vars

(***************************************************************************)
(* SpecAdHoc: additions to and removals from the checklist of one         *)
(* inspection, the clock advancing or not between two additions.          *)
(***************************************************************************)
NextAdHoc ==
  \/ handleAddCheckpoint(MaxCheckpoints + 1, {0, 1})
  \/ \E id \in Ids(checkpoints) : handleDeleteCheckpoint(id)
  \/ \E id \in Ids(checkpoints), status \in {"Pass", "Fail"} : setStatus(id, status)
  \/ \E id \in Ids(checkpoints) : setImage(id)

SpecAdHoc == InitChecklist /\ [][NextAdHoc]_vars

(***************************************************************************)
(* SpecAsync: one inspection with the photo reads and reason suggestions   *)
(* of its checkpoints settling at any later moment, among edits, additions *)
(* and removals.                                                           *)
(***************************************************************************)
NextAsync ==
  \/ \E id \in Ids(checkpoints), status \in {"Pass", "Fail"} : setStatus(id, status)
  \/ \E id \in Ids(checkpoints) : pickImage(id, MaxPending)
  \/ \E op \in pending : imageLoaded(op)
  \/ \E id \in Ids(checkpoints) : removeImage(id)
  \/ \E id \in Ids(checkpoints), text \in FlowReasons : editReason(id, text)
  \/ \E id \in Ids(checkpoints) : handleAIReason(id, MaxPending)
  \/ \E op \in pending, response \in FlowResponses : suggestionSettled(op, response)
  \/ handleAddCheckpoint(MaxCheckpoints, {1})
  \/ \E id \in Ids(checkpoints) : handleDeleteCheckpoint(id)

SpecAsync == InitChecklist /\ [][NextAsync]_vars

(***************************************************************************)
(* SpecLate: an inspection with photo reads and suggestions under way      *)
(* that the operator leaves, by BACK or by logout, for the next one.       *)
(***************************************************************************)
InitLate == Inspecting(EmptyStore, Directory[2], DeviceA)

NextLate ==
  \/ \E id \in Ids(checkpoints) : setStatus(id, "Fail")
  \/ \E id \in Ids(checkpoints) : pickImage(id, MaxPending)
  \/ \E op \in pending : imageLoaded(op)
  \/ \E id \in Ids(checkpoints) : handleAIReason(id, MaxPending)
  \/ \E op \in pending, response \in FlowResponses : suggestionSettled(op, response)
  \/ backToDeviceIdEntry
  \/ \E text \in NextIds : typeDeviceId(text)
  \/ handleDeviceSubmit
  \/ logout
  \/ handleStageSelect("FQC")
  \/ handleLogin("op1", "p1")

SpecLate == InitLate /\ [][NextLate]_vars

(***************************************************************************)
(* LivePending: an inspection that the operator submits and then leaves,   *)
(* by BACK, by logout or by starting the next one as soon as he can.  A    *)
(* timer that was set fires: the page stays open.                          *)
(***************************************************************************)
NextPending ==
  \/ \E id \in Ids(checkpoints), status \in {"Pass", "Fail"} : setStatus(id, status)
  \/ \E id \in Ids(checkpoints) : setImage(id)
  \/ \E id \in Ids(checkpoints), text \in FlowReasons : editReason(id, text)
  \/ Submit(MaxRoundReports)
  \/ backToDeviceIdEntry
  \/ backToStageSelection
  \/ \E text \in NextIds : typeDeviceId(text)
  \/ handleDeviceSubmit
  \/ resetApp
  \/ logout
  \/ handleStageSelect("FQC")
  \/ handleLogin("op1", "p1")

LivePending == InitLate /\ [][NextPending]_vars /\ WF_vars(submitTimeout)

(***************************************************************************)
(* SpecAssist: one inspection in which the operator asks for reason        *)
(* suggestions, the service answering in every way it can, up to the       *)
(* stored report.                                                          *)
(***************************************************************************)
NextAssist ==
  \/ \E id \in Ids(checkpoints), status \in {"Pass", "Fail"} : setStatus(id, status)
  \/ \E id \in Ids(checkpoints), text \in FlowLabels : editLabel(id, text)
  \/ \E id \in Ids(checkpoints) : setImage(id)
  \/ \E id \in Ids(checkpoints), text \in FlowReasons : editReason(id, text)
  \/ \E id \in Ids(checkpoints) : handleAIReason(id, MaxPending)
  \/ \E op \in pending, response \in Responses : suggestionSettled(op, response)
  \/ Submit(Len(reports) + 1)

SpecAssist == InitChecklist /\ [][NextAssist]_vars

(***************************************************************************)
(* Vocabulary of the properties, stated apart from the handlers.           *)
(***************************************************************************)
DeviceIds == { <<>>, <<"A">>, <<"B">> }

RowsOf(statuses, d) == { i \in 1..Len(statuses) : statuses[i].deviceId = d }

FqcCompleted(statuses, d) ==
  \E i \in RowsOf(statuses, d) : statuses[i].fqcStatus = "completed"

NonBlank(reason) == \E k \in 1..Len(reason) : reason[k] # " "

Complete(cps) ==
  \A i \in 1..Len(cps) :
    /\ cps[i].image # NULL
    /\ cps[i].status # NULL
    /\ \/ cps[i].status = "Pass"
       \/ (cps[i].status = "Fail" /\ NonBlank(cps[i].reason))

AnyFail(cps) == \E i \in 1..Len(cps) : cps[i].status = "Fail"

Outcome(cps) == IF AnyFail(cps) THEN "failed" ELSE "completed"

StageField(row, stage) ==
  IF stage = "FQC" THEN row.fqcStatus ELSE row.packagingStatus

Other(stage) == IF stage = "FQC" THEN "Packaging" ELSE "FQC"

LastReport(reps) == reps[Len(reps)]

RECURSIVE LexLess(_, _)
\* the order of two timestamps, digit by digit
LexLess(a, b) ==
  IF a = <<>> \/ b = <<>> THEN a = <<>> /\ b # <<>>
  ELSE IF Head(a) # Head(b) THEN Head(a) < Head(b)
  ELSE LexLess(Tail(a), Tail(b))

\* a step that stores a report
Stores == Len(reports') = Len(reports) + 1

(***************************************************************************)
(* C1.  Every transition into the checklist with selected stage Packaging, *)
(* by manual submit or by a scan decode, finds a status row of the device  *)
(* with fqcStatus = completed.  The scan decode enters the checklist       *)
(* without consulting the Device Status collection, so this fails under    *)
(* SpecEntry.                                                              *)
(***************************************************************************)
PackagingEntryGated ==
  [][ ( /\ currentStep # "CHECKLIST"
        /\ currentStep' = "CHECKLIST"
        /\ selectedStage' = "Packaging" )
      => FqcCompleted(deviceStatuses', deviceId') ]_vars

(***************************************************************************)
(* C2.  For every device identifier and every content of the Device Status *)
(* collection the stage-entry check admits FQC, and admits Packaging       *)
(* exactly when a row of the device has fqcStatus = completed.             *)
(***************************************************************************)
StageEntryCheck ==
  \A d \in DeviceIds :
    /\ canEnterStage(deviceStatuses, d, "FQC")
    /\ canEnterStage(deviceStatuses, d, "Packaging")
         <=> FqcCompleted(deviceStatuses, d)

\* Packaging was refused for a device whose FQC failed
StageEntryRefusedAfterFailedFqc ==
  /\ currentStep = "DEVICE_ID_ENTRY"
  /\ selectedStage = "Packaging"
  /\ error = "StagePrerequisiteNotMet"
  /\ \E i \in RowsOf(deviceStatuses, deviceId) :
       deviceStatuses[i].fqcStatus = "failed"

(***************************************************************************)
(* C3.  canSubmit holds of a checkpoint list, ad-hoc additions and         *)
(* removals included, exactly when every checkpoint has an image, a status *)
(* and, when failed, a reason that is not blank; the submit handler        *)
(* decides by it.                                                          *)
(***************************************************************************)
CanSubmitIffComplete ==
  /\ canSubmit(checkpoints) <=> Complete(checkpoints)
  /\ submitTimer # NoTimer => Complete(submitTimer.report.checkpoints)
  /\ alert = "IncompleteChecklist" => ~Complete(checkpoints)

\* a list with an ad-hoc checkpoint was refused for a reason of blanks only
BlankReasonRefused ==
  /\ alert = "IncompleteChecklist"
  /\ Len(checkpoints) = 2
  /\ \A i \in 1..Len(checkpoints) :
       checkpoints[i].image # NULL /\ checkpoints[i].status # NULL
  /\ \E i \in 1..Len(checkpoints) :
       checkpoints[i].status = "Fail" /\ checkpoints[i].reason = <<" ">>

(***************************************************************************)
(* C4.  Every stored report is complete: each checkpoint has a status and  *)
(* an image, each failed checkpoint a reason that is not blank, whatever   *)
(* edits were made while the submission was pending.                       *)
(***************************************************************************)
StoredReportsComplete ==
  \A r \in 1..Len(reports) : Complete(reports[r].checkpoints)

\* the report was stored after the checklist on screen was spoiled
StoredAfterSpoilingEdit ==
  /\ currentStep = "SUCCESS"
  /\ ~Complete(checkpoints)
  /\ LastReport(reports).deviceId = deviceId
  /\ LastReport(reports).checkpoints # checkpoints

(***************************************************************************)
(* C5.  A submission of an incomplete checklist is refused: it is not      *)
(* accepted, no report is appended, no status row is created or changed,   *)
(* the workflow stays in the checklist and the checkpoints are unchanged.  *)
(***************************************************************************)
IncompleteSubmissionRefused ==
  [][ /\ (submitTimer = NoTimer /\ submitTimer' # NoTimer)
        => Complete(checkpoints)
      /\ alert' = "IncompleteChecklist"
        => /\ ~Complete(checkpoints)
           /\ reports' = reports
           /\ deviceStatuses' = deviceStatuses
           /\ currentStep = "CHECKLIST"
           /\ currentStep' = "CHECKLIST"
           /\ checkpoints' = checkpoints
           /\ submitTimer' = submitTimer
           /\ isSubmitting' = isSubmitting ]_vars

\* a checklist with a missing photo was refused
MissingPhotoRefused ==
  /\ alert = "IncompleteChecklist"
  /\ currentStep = "CHECKLIST"
  /\ \E i \in 1..Len(checkpoints) :
       checkpoints[i].status = "Pass" /\ checkpoints[i].image = NULL

(***************************************************************************)
(* C6.  Once a report for device d and stage s is stored, the field of s   *)
(* in the row of d is failed when some checkpoint of the report failed and *)
(* completed otherwise, and the field of the other stage has the value it  *)
(* had before (pending when the device had no row).                        *)
(***************************************************************************)
OutcomeRecorded ==
  [][ Stores =>
        LET r == LastReport(reports')
            old == RowsOf(deviceStatuses, r.deviceId)
            new == RowsOf(deviceStatuses', r.deviceId)
        IN r.stage \in Stages =>
             /\ new # {}
             /\ \A i \in new :
                  /\ StageField(deviceStatuses'[i], r.stage)
                       = Outcome(r.checkpoints)
                  /\ StageField(deviceStatuses'[i], Other(r.stage))
                       = IF i \in old
                         THEN StageField(deviceStatuses[i], Other(r.stage))
                         ELSE "pending" ]_vars

\* a Packaging report with a passed and a failed checkpoint was stored for
\* a device that completed FQC
PackagingFailedAfterFqc ==
  /\ currentStep = "SUCCESS"
  /\ LastReport(reports).stage = "Packaging"
  /\ \E i, j \in 1..Len(LastReport(reports).checkpoints) :
       /\ LastReport(reports).checkpoints[i].status = "Pass"
       /\ LastReport(reports).checkpoints[j].status = "Fail"
  /\ \E i \in RowsOf(deviceStatuses, LastReport(reports).deviceId) :
       /\ deviceStatuses[i].fqcStatus = "completed"
       /\ deviceStatuses[i].packagingStatus = "failed"

(***************************************************************************)
(* C7.  Storing a report for a device and stage that already have a stored *)
(* report overwrites that stage's field with the new outcome, leaves the   *)
(* other stage's field and the rows of all other devices as they were, and *)
(* moves lastUpdated to a later timestamp.                                 *)
(***************************************************************************)
Resubmits ==
  /\ Stores
  /\ LastReport(reports').stage \in Stages
  /\ \E k \in 1..Len(reports) :
       /\ reports[k].deviceId = LastReport(reports').deviceId
       /\ reports[k].stage = LastReport(reports').stage

ResubmissionOverwritesOneField ==
  [][ Resubmits =>
        LET r == LastReport(reports')
        IN /\ Len(deviceStatuses') = Len(deviceStatuses)
           /\ RowsOf(deviceStatuses, r.deviceId) # {}
           /\ \A i \in 1..Len(deviceStatuses) :
                IF deviceStatuses[i].deviceId = r.deviceId
                THEN /\ deviceStatuses'[i].deviceId = r.deviceId
                     /\ StageField(deviceStatuses'[i], r.stage)
                          = Outcome(r.checkpoints)
                     /\ StageField(deviceStatuses'[i], Other(r.stage))
                          = StageField(deviceStatuses[i], Other(r.stage))
                     /\ LexLess(deviceStatuses[i].lastUpdated,
                                deviceStatuses'[i].lastUpdated)
                ELSE deviceStatuses'[i] = deviceStatuses[i] ]_vars

\* a Packaging outcome was overturned while another device has a row
OutcomeOverturned ==
  /\ Len(deviceStatuses) = 2
  /\ \E j, k \in 1..Len(reports) :
       /\ j < k
       /\ k = Len(reports)
       /\ reports[j].deviceId = reports[k].deviceId
       /\ reports[j].stage = reports[k].stage
       /\ Outcome(reports[j].checkpoints) # Outcome(reports[k].checkpoints)
       /\ \E i \in RowsOf(deviceStatuses, reports[k].deviceId) :
            StageField(deviceStatuses[i], reports[k].stage)
              = Outcome(reports[k].checkpoints)

(***************************************************************************)
(* C8.  The Device Status collection holds at most one row per device, and *)
(* a row for a device exactly when a report for it is stored; a device     *)
(* with a single report has that report's outcome in the field of its      *)
(* stage and pending in the other.                                         *)
(***************************************************************************)
ReportsOf(d) == { k \in 1..Len(reports) : reports[k].deviceId = d }

OneRowPerInspectedDevice ==
  /\ \A i, j \in 1..Len(deviceStatuses) :
       deviceStatuses[i].deviceId = deviceStatuses[j].deviceId => i = j
  /\ \A d \in DeviceIds : RowsOf(deviceStatuses, d) # {} <=> ReportsOf(d) # {}
  /\ \A i \in 1..Len(deviceStatuses) :
       deviceStatuses[i].deviceId \in DeviceIds
  /\ \A k \in 1..Len(reports) :
       ( /\ ReportsOf(reports[k].deviceId) = {k}
         /\ reports[k].stage \in Stages )
       => \A i \in RowsOf(deviceStatuses, reports[k].deviceId) :
            /\ StageField(deviceStatuses[i], reports[k].stage)
                 = Outcome(reports[k].checkpoints)
            /\ StageField(deviceStatuses[i], Other(reports[k].stage))
                 = "pending"

\* two devices inspected, one of them twice
TwoRowsThreeReports ==
  /\ Len(deviceStatuses) = 2
  /\ Len(reports) = 3
  /\ \E k \in 1..Len(reports) : ReportsOf(reports[k].deviceId) = {k}

(***************************************************************************)
(* C9.  Each accepted submission writes the device status once, after the  *)
(* report is appended, and never with an outcome other than the one of the *)
(* stored report.  saveReport writes completed on its own before the timer *)
(* callback writes the outcome, so this fails under Spec.                  *)
(***************************************************************************)
OutcomeWrittenOnce ==
  /\ Len(statusWrites) <= 1
  /\ \A w \in 1..Len(statusWrites) :
       statusWrites[w].status = Outcome(LastReport(reports).checkpoints)

(***************************************************************************)
(* C10.  The Reports collection is append-only: a step leaves it alone or  *)
(* appends one report, the one of the accepted submission, and every       *)
(* report stored before keeps its content and its position.                *)
(***************************************************************************)
ReportsAppendOnly ==
  [][ /\ Len(reports') \in { Len(reports), Len(reports) + 1 }
      /\ SubSeq(reports', 1, Len(reports)) = reports
      /\ Stores =>
           /\ submitTimer # NoTimer
           /\ LastReport(reports') = submitTimer.report
           /\ submitTimer' = NoTimer ]_vars

\* a report was stored in the session and the administrator then opened
\* the dashboard
StoredThenDashboard ==
  /\ Len(reports) = Len(FqcPassed.reports) + 1
  /\ currentStep = "DASHBOARD"
  /\ currentUser # NoUser
  /\ submitTimer = NoTimer

(***************************************************************************)
(* Vocabulary of the login properties.                                     *)
(***************************************************************************)
\* the stored users with exactly these credentials
Matching(c) ==
  { i \in 1..Len(users) : users[i].userId = c[1] /\ users[i].password = c[2] }

\* the session and the store are as they were
LoginRefused ==
  /\ currentUser' = currentUser
  /\ selectedStage' = selectedStage
  /\ currentStep' = currentStep
  /\ users' = users
  /\ reports' = reports
  /\ deviceStatuses' = deviceStatuses

(***************************************************************************)
(* C11.  A login reaches the device screen only with the credentials of a  *)
(* stored, active, non-admin user assigned to the selected stage, who      *)
(* becomes the current identity; an active operator assigned to another    *)
(* stage is refused with StageMismatch, is not bound and stays on Login.   *)
(***************************************************************************)
LoginAdmitsAssignedOperator ==
  [][ \A c \in LoginCredentials :
        handleLogin(c[1], c[2]) =>
          /\ currentStep' = "DEVICE_ID_ENTRY" =>
               \E i \in Matching(c) :
                 /\ users[i].isActive
                 /\ ~users[i].isAdmin
                 /\ users[i].assignedStage = selectedStage
                 /\ currentUser' = users[i]
          /\ ( /\ selectedStage \in Stages
               /\ \E i \in Matching(c) :
                    /\ users[i].isActive
                    /\ ~users[i].isAdmin
                    /\ users[i].assignedStage # selectedStage )
             => /\ error' = "StageMismatch"
                /\ currentUser' = currentUser
                /\ currentStep' = "LOGIN" ]_vars

\* op1, assigned to FQC, was refused at the Packaging login
FqcOperatorRefusedAtPackaging ==
  /\ currentStep = "LOGIN"
  /\ selectedStage = "Packaging"
  /\ error = "StageMismatch"
  /\ currentUser = NoUser

AdminBypassesStageCheck ==
  [][ /\ \A c \in LoginCredentials :
           ( /\ handleLogin(c[1], c[2])
             /\ \E i \in Matching(c) : users[i].isActive /\ users[i].isAdmin )
           => /\ currentStep' = "ADMIN"
              /\ currentUser' \in { users[i] : i \in Matching(c) }
              /\ selectedStage' = selectedStage
      /\ handleAdminAccess =>
           /\ selectedStage' = NULL
           /\ currentStep' = IF currentUser # NoUser /\ currentUser.isAdmin
                             THEN "ADMIN" ELSE "LOGIN" ]_vars

\* the admin console was entered with no stage selected
AdminConsoleWithoutStage ==
  /\ currentStep = "ADMIN"
  /\ selectedStage = NULL
  /\ currentUser # NoUser
  /\ currentUser.isAdmin
  /\ currentUser.assignedStage = "Packaging"

(***************************************************************************)
(* C14.  Choosing a stage moves the workflow to Login, unless the current  *)
(* identity is a non-admin assigned to the chosen stage, who goes straight *)
(* to the device screen.  An operator assigned to the other stage is kept  *)
(* on the stage selection instead, so this fails under SpecLogin.          *)
(***************************************************************************)
StageChoiceLeadsToLogin ==
  [][ \A stage \in Stages :
        handleStageSelect(stage) =>
          currentStep' = IF /\ currentUser # NoUser
                            /\ ~currentUser.isAdmin
                            /\ currentUser.assignedStage = stage
                         THEN "DEVICE_ID_ENTRY" ELSE "LOGIN" ]_vars

(***************************************************************************)
(* C14, as the handler decides.  Choosing a stage records it and moves to  *)
(* Login when nobody or an admin is logged in, to the device screen when   *)
(* the operator is assigned to the chosen stage, and stays on the stage    *)
(* selection with StageMismatch when the operator is assigned to another.  *)
(***************************************************************************)
StageChoiceRoutes ==
  [][ \A stage \in Stages :
        handleStageSelect(stage) =>
          /\ selectedStage' = stage
          /\ currentUser' = currentUser
          /\ IF currentUser = NoUser THEN currentStep' = "LOGIN"
             ELSE IF currentUser.isAdmin THEN currentStep' = "LOGIN"
             ELSE IF currentUser.assignedStage = stage
             THEN currentStep' = "DEVICE_ID_ENTRY"
             ELSE currentStep' = "STAGE_SELECTION" /\ error' = "StageMismatch" ]_vars

\* a logged-in operator was refused the other stage on the stage selection
OperatorKeptOnStageSelection ==
  /\ currentStep = "STAGE_SELECTION"
  /\ error = "StageMismatch"
  /\ currentUser # NoUser
  /\ ~currentUser.isAdmin
  /\ selectedStage \in Stages
  /\ currentUser.assignedStage # selectedStage

(***************************************************************************)
(* Vocabulary of the session properties.                                   *)
(***************************************************************************)
\* a checklist nobody has touched
Untouched(cps) ==
  \A i \in 1..Len(cps) :
    cps[i].status = NULL /\ cps[i].image = NULL /\ cps[i].reason = <<>>

(***************************************************************************)
(* C15.  On the scan screen a decode writes the decoded text as device     *)
(* identifier and enters the checklist with an untouched checklist;        *)
(* without a decode the workflow stays on the scan screen until it is      *)
(* cancelled back to the device screen (or the operator logs out), and     *)
(* cancelling keeps the device identifier.  The timer of a submission that *)
(* is still pending takes the scan screen to Success, so this fails under  *)
(* SpecRound.                                                              *)
(***************************************************************************)
ScanEndsByDecodeOrCancel ==
  [][ currentStep = "SCAN_DEVICE_ID" =>
        \/ currentStep' = "SCAN_DEVICE_ID" /\ deviceId' = deviceId
        \/ /\ currentStep' = "CHECKLIST"
           /\ deviceId' \in ScanCodes
           /\ checkpoints' # <<>>
           /\ Untouched(checkpoints')
        \/ currentStep' = "DEVICE_ID_ENTRY" /\ deviceId' = deviceId
        \/ currentStep' = "STAGE_SELECTION" /\ currentUser' = NoUser ]_vars

(***************************************************************************)
(* C16.  Next device moves from Success to the device screen, empties the  *)
(* device identifier, the device photo and the checkpoint list, and keeps  *)
(* the identity, the selected stage and the three collections.             *)
(***************************************************************************)
NextDeviceResetsRound ==
  [][ resetApp =>
        /\ currentStep = "SUCCESS"
        /\ currentStep' = "DEVICE_ID_ENTRY"
        /\ deviceId' = <<>>
        /\ deviceImage' = NULL
        /\ checkpoints' = <<>>
        /\ currentUser' = currentUser
        /\ selectedStage' = selectedStage
        /\ users' = users
        /\ reports' = reports
        /\ deviceStatuses' = deviceStatuses ]_vars

\* the operator is back on an empty device screen after a stored report
EmptyDeviceScreenAfterReport ==
  /\ currentStep = "DEVICE_ID_ENTRY"
  /\ deviceId = <<>>
  /\ deviceImage = NULL
  /\ ~deviceImageRead
  /\ checkpoints = <<>>
  /\ Len(reports) = 1
  /\ submitTimer = NoTimer
  /\ currentUser # NoUser
  /\ selectedStage = LastReport(reports).stage

LeavingChecklistDiscards ==
  [][ ( /\ currentStep = "CHECKLIST"
        /\ currentStep' \notin {"CHECKLIST", "SUCCESS"} )
      => Untouched(checkpoints') ]_vars

(***************************************************************************)
(* C19.  Whenever the checklist is entered, by manual submit or by scan,   *)
(* the checkpoint list is the template of the selected stage, in order,    *)
(* every entry without status, photo and reason.  A decode builds the      *)
(* list from the stage its polling closure captured when scanning was      *)
(* switched on, so this fails under SpecRound.                             *)
(***************************************************************************)
TemplateOf(stage) ==
  IF stage = "FQC" THEN FQC_CHECKPOINTS
  ELSE IF stage = "Packaging" THEN PACKAGING_CHECKPOINTS
  ELSE <<>>

ChecklistIsTemplateOfStage ==
  [][ (currentStep # "CHECKLIST" /\ currentStep' = "CHECKLIST") =>
        /\ selectedStage' \in Stages
        /\ Len(checkpoints') = Len(TemplateOf(selectedStage'))
        /\ Untouched(checkpoints')
        /\ \A i \in 1..Len(checkpoints') :
             /\ checkpoints'[i].id = TemplateOf(selectedStage')[i].id
             /\ checkpoints'[i].label = TemplateOf(selectedStage')[i].label ]_vars

(***************************************************************************)
(* C20.  The checkpoint ids of a list are pairwise distinct after any      *)
(* sequence of additions and removals.  An addition names its checkpoint   *)
(* after the clock reading, so two additions within one millisecond get    *)
(* the same id, and this fails under SpecAdHoc.                            *)
(***************************************************************************)
CheckpointIdsDistinct ==
  \A i, j \in 1..Len(checkpoints) :
    checkpoints[i].id = checkpoints[j].id => i = j

(***************************************************************************)
(* C21.  When the photo read or the reason suggestion started for the      *)
(* checkpoint with id X settles, the checklist keeps its length and order, *)
(* every checkpoint with another id keeps all its values, a checkpoint     *)
(* with id X changes in that one field only (image for a read, reason for  *)
(* a suggestion) and keeps the other values it has at that moment, a       *)
(* checklist without X is left as it is, and nothing else of the workflow  *)
(* changes.                                                                *)
(***************************************************************************)
Settles(op) == op \in pending /\ pending' = pending \ { op }

OneFieldOf(op, before, after) ==
  /\ Len(after) = Len(before)
  /\ \A i \in 1..Len(before) :
       IF before[i].id = op.id
       THEN after[i] = [before[i] EXCEPT ![op.field] = after[i][op.field]]
       ELSE after[i] = before[i]

SuggestionLeavesReason ==
  [][ \A op \in pending :
        (Settles(op) /\ op.field = "reason")
        => \A i \in 1..Len(checkpoints') :
             checkpoints'[i].id = op.id
             => checkpoints'[i].reason # <<>> ]_vars

(***************************************************************************)
(* C22.  The decode poll is scheduled only while the scan screen is shown  *)
(* with a live camera stream: once scanning was stopped, a code was found  *)
(* or the scan screen was left, neither the interval of the poll nor a     *)
(* requested animation frame remains.                                      *)
(***************************************************************************)
\* the interval of the poll exists exactly while scanning is set
PollScheduled == scanning \/ frameLoop

NoOrphanedPoll ==
  PollScheduled => (currentStep = "SCAN_DEVICE_ID" /\ videoStream)

(***************************************************************************)
(* C24.  No two users of the Users collection have the same userId.        *)
(***************************************************************************)
UsersRead == getStoredUsers(users)

UserIdsUnique ==
  \A i, j \in 1..Len(UsersRead) :
    UsersRead[i].userId = UsersRead[j].userId => i = j

(***************************************************************************)
(* C25.  The Users collection always holds the admin account, active.  A   *)
(* status switch or a deletion aimed at the id admin leaves the collection *)
(* as it is; aimed at another id, the switch flips isActive of the users   *)
(* with that id and changes nothing else, and the deletion (once           *)
(* confirmed) removes the users with that id and nothing else.             *)
(***************************************************************************)
AdminIds == { "admin", "op1" }

AdminActive(us) ==
  \E i \in 1..Len(us) :
    us[i].userId = "admin" /\ us[i].isAdmin /\ us[i].isActive

Switched(before, after, id) ==
  IF id = "admin" THEN after = before
  ELSE /\ Len(after) = Len(before)
       /\ \A i \in 1..Len(before) :
            IF before[i].userId = id
            THEN after[i] = [before[i] EXCEPT !.isActive = ~before[i].isActive]
            ELSE after[i] = before[i]

Removed(before, after, id, confirmed) ==
  IF id = "admin" \/ ~confirmed THEN after = before
  ELSE after = SelectSeq(before, LAMBDA u : u.userId # id)

ExactlyOneAdmin ==
  /\ Cardinality({ i \in 1..Len(UsersRead) : UsersRead[i].isAdmin }) = 1
  /\ \A i \in 1..Len(UsersRead) :
       UsersRead[i].isAdmin => UsersRead[i].userId = "admin"

\* the admin account was updated (through the search, or through a second
\* account of its name) and an operator named admin is registered
AdminUpdatedBesideNamesake ==
  /\ Len(users) = 3
  /\ users[1].isAdmin
  /\ users[1].password = "p1"
  /\ users[1].assignedStage = "Packaging"
  /\ \E i \in 2..3 : users[i].userId = "admin" /\ ~users[i].isAdmin

(***************************************************************************)
(* C27.  A search with a query that is not blank shows the first user      *)
(* whose userId equals the trimmed query, letter case ignored, and whose   *)
(* assignedStage is the stage chosen for the search; without such a user   *)
(* it shows not-found, also when a user of that id is assigned to the      *)
(* other stage.  A blank query shows no result.  The result is one user at *)
(* most.                                                                   *)
(***************************************************************************)
\* the queries that name a userId, up to surrounding blanks and letter case
Names(query, userId) ==
  <<query, userId>> \in { <<"op1", "op1">>, <<" OP1 ", "op1">>, <<"admin", "admin">> }

BlankQuery(query) == query \in { "", " " }

MostRecentFirst(table, statuses) ==
  /\ Len(table) = (IF Len(statuses) < TABLE_ROWS THEN Len(statuses) ELSE TABLE_ROWS)
  /\ \A i \in 1..Len(table) : \E k \in 1..Len(statuses) : table[i] = statuses[k]
  /\ \A i, j \in 1..Len(table) :
       i < j => ~LexLess(table[i].lastUpdated, table[j].lastUpdated)
  /\ \A k \in 1..Len(statuses) :
       (\A i \in 1..Len(table) : table[i] # statuses[k])
       => \A i \in 1..Len(table) :
            ~LexLess(table[i].lastUpdated, statuses[k].lastUpdated)

DeviceTableMostRecentFirst ==
  currentStep = "DASHBOARD"
  => MostRecentFirst(dashboard.deviceTable, deviceStatuses)

(***************************************************************************)
(* C29.  The top failing checkpoints of the dashboard are the at most 5    *)
(* labels with the most Fail results over the stored reports, in           *)
(* descending order of count, labels of equal count in the order in which  *)
(* the scan of the reports and their checkpoints first meets them.         *)
(***************************************************************************)
Results(reps) ==
  UNION { { <<r, c>> : c \in 1..Len(reps[r].checkpoints) } : r \in 1..Len(reps) }

\* where the Fail results of a label stand in the reports
FailsAt(reps, label) ==
  { rc \in Results(reps) :
      /\ reps[rc[1]].checkpoints[rc[2]].status = "Fail"
      /\ reps[rc[1]].checkpoints[rc[2]].label = label }

FailingLabels(reps) ==
  { reps[rc[1]].checkpoints[rc[2]].label :
      rc \in { at \in Results(reps) :
                 reps[at[1]].checkpoints[at[2]].status = "Fail" } }

MetBefore(reps, a, b) ==
  \E p \in FailsAt(reps, a) : \A q \in FailsAt(reps, b) :
    p[1] < q[1] \/ (p[1] = q[1] /\ p[2] < q[2])

Outranks(reps, a, b) ==
  \/ Cardinality(FailsAt(reps, a)) > Cardinality(FailsAt(reps, b))
  \/ /\ Cardinality(FailsAt(reps, a)) = Cardinality(FailsAt(reps, b))
     /\ MetBefore(reps, a, b)

TopFailing(list, reps) ==
  /\ Len(list) = (IF Cardinality(FailingLabels(reps)) < TOP_FAILURES
                  THEN Cardinality(FailingLabels(reps)) ELSE TOP_FAILURES)
  /\ \A i \in 1..Len(list) :
       /\ list[i][1] \in FailingLabels(reps)
       /\ list[i][2] = Cardinality(FailsAt(reps, list[i][1]))
  /\ \A i, j \in 1..Len(list) :
       i < j => Outranks(reps, list[i][1], list[j][1])
  /\ \A label \in FailingLabels(reps) :
       (\A i \in 1..Len(list) : list[i][1] # label)
       => \A i \in 1..Len(list) : Outranks(reps, list[i][1], label)

TopFailuresRanked ==
  currentStep = "DASHBOARD" => TopFailing(dashboard.sortedFailures, reports)

(***************************************************************************)
(* C30.  The CSV escaping wraps every field value in double quotes and     *)
(* doubles each double quote inside it, so that un-escaping the field      *)
(* gives back the value; a value free of quotes is only wrapped; and the   *)
(* text He said "hi" becomes "He said ""hi""".  As first stated, the       *)
(* escaping is moreover idempotent on the values free of quotes: escaping  *)
(* the field of such a value again gives the same field.                   *)
(***************************************************************************)
QuoteFree(text) == \A i \in 1..Len(text) : text[i] # QUOTE

QuotesIn(text) == Cardinality({ i \in 1..Len(text) : text[i] = QUOTE })

Inner(field) == SubSeq(field, 2, Len(field) - 1)

RECURSIVE Paired(_)
\* every double quote of the text is one of a pair
Paired(text) ==
  IF text = <<>> THEN TRUE
  ELSE IF Head(text) # QUOTE THEN Paired(Tail(text))
  ELSE Len(text) >= 2 /\ text[2] = QUOTE /\ Paired(Tail(Tail(text)))

RECURSIVE Halved(_)
Halved(text) ==
  IF text = <<>> THEN <<>>
  ELSE IF Head(text) = QUOTE /\ Len(text) >= 2 /\ text[2] = QUOTE
  THEN << QUOTE >> \o Halved(Tail(Tail(text)))
  ELSE << Head(text) >> \o Halved(Tail(text))

\* what a reader of the file makes of a field
Unescape(field) == Halved(Inner(field))

Exported ==
  { rf \in { <<r, f>> : r \in 1..Len(reports), f \in 1..Len(HEADERS) } :
      download # NoDownload /\ rf[1] <= Len(download.rows) }

ValueOf(rf) == fieldsOf(reports[rf[1]])[rf[2]]
FieldOf(rf) == download.rows[rf[1]][rf[2]]

HeSaidHi == << "He said ", QUOTE, "hi", QUOTE >>
HeSaidHiDoubled == << "He said ", QUOTE, QUOTE, "hi", QUOTE, QUOTE >>

\* the places of a text where a part stands
Places(text, part) ==
  { i \in 1..(Len(text) - Len(part) + 1) :
      SubSeq(text, i, i + Len(part) - 1) = part }

FieldsEscaped ==
  \A rf \in Exported :
    /\ Len(FieldOf(rf)) = Len(ValueOf(rf)) + QuotesIn(ValueOf(rf)) + 2
    /\ Head(FieldOf(rf)) = QUOTE
    /\ FieldOf(rf)[Len(FieldOf(rf))] = QUOTE
    /\ Paired(Inner(FieldOf(rf)))
    /\ Unescape(FieldOf(rf)) = ValueOf(rf)
    /\ QuoteFree(ValueOf(rf))
       => FieldOf(rf) = << QUOTE >> \o ValueOf(rf) \o << QUOTE >>
    /\ Places(ValueOf(rf), HeSaidHi) # {}
       => Places(FieldOf(rf), HeSaidHiDoubled) # {}

EscapeIdempotentOnQuoteFree ==
  \A rf \in Exported :
    QuoteFree(ValueOf(rf)) => escape(FieldOf(rf)) = FieldOf(rf)

ExportedQuotedReason ==
  /\ \E rf \in Exported : Places(ValueOf(rf), HeSaidHi) # {}
  /\ \E rf \in Exported : QuoteFree(ValueOf(rf)) /\ ValueOf(rf) # <<>>

(***************************************************************************)
(* C31.  The workflow is in the checklist only with a device identifier    *)
(* that is non-empty after trimming: a blank identifier is refused with    *)
(* MissingDeviceId on the device screen and no checklist is built.         *)
(***************************************************************************)
ChecklistNeedsDeviceId ==
  /\ [](currentStep = "CHECKLIST" => Trim(deviceId) # <<>>)
  /\ [][ (handleDeviceSubmit /\ Trim(deviceId) = <<>>)
         => /\ error' = "MissingDeviceId"
            /\ currentStep' = "DEVICE_ID_ENTRY"
            /\ checkpoints' = checkpoints ]_vars

(***************************************************************************)
(* C32.  The workflow enters Success only from the checklist, when the     *)
(* accepted submission of the session in progress is stored: after a       *)
(* logout or a BACK during the delay of the submission, its completion     *)
(* does not show Success.                                                  *)
(***************************************************************************)
SuccessOnlyFromChecklist ==
  [][ (currentStep # "SUCCESS" /\ currentStep' = "SUCCESS")
      => /\ currentStep = "CHECKLIST"
         /\ currentUser # NoUser
         /\ submitTimer # NoTimer
         /\ submitTimer.report.deviceId = deviceId
         /\ submitTimer.report.userId = currentUser.userId ]_vars

(***************************************************************************)
(* C33.  While the workflow is on the device screen, the scan screen, the  *)
(* checklist or Success, the selected stage is FQC or Packaging and the    *)
(* current identity is an active non-admin user assigned to that stage.    *)
(***************************************************************************)
InspectionSteps ==
  {"DEVICE_ID_ENTRY", "SCAN_DEVICE_ID", "CHECKLIST", "SUCCESS"}

InspectionHasOperator ==
  currentStep \in InspectionSteps
  => /\ selectedStage \in Stages
     /\ currentUser # NoUser
     /\ ~currentUser.isAdmin
     /\ currentUser.assignedStage = selectedStage

(***************************************************************************)
(* C34.  Every stored report has stage FQC or Packaging and the userId of  *)
(* a non-admin operator of the Users collection assigned to that stage;    *)
(* none has an unset stage or the placeholder userId Unknown.              *)
(***************************************************************************)
ReportsHaveStageAndOperator ==
  \A r \in 1..Len(reports) :
    /\ reports[r].stage \in Stages
    /\ reports[r].userId # "Unknown"
    /\ \E u \in 1..Len(users) :
         /\ users[u].userId = reports[r].userId
         /\ ~users[u].isAdmin
         /\ users[u].assignedStage = reports[r].stage

(***************************************************************************)
(* C35.  A photo read or a suggestion that completes after the inspection  *)
(* that started it has ended changes no checkpoint of a later inspection:  *)
(* a completion that changes the checklist on screen was started for the   *)
(* device of that checklist.                                               *)
(***************************************************************************)
CompletionStaysInSession ==
  [][ \A op \in pending :
        (Settles(op) /\ currentStep = "CHECKLIST" /\ checkpoints' # checkpoints)
        => op.device = deviceId ]_vars

(***************************************************************************)
(* C36.  For every device d and stage s, the field of s in the status row  *)
(* of d is pending when no report for d and s is stored (a device without  *)
(* a row counts as pending), and otherwise it is the outcome of the report *)
(* for d and s stored last: failed if that report has a failed checkpoint, *)
(* completed if not.                                                       *)
(***************************************************************************)
ReportsFor(d, stage) ==
  { k \in 1..Len(reports) :
      reports[k].deviceId = d /\ reports[k].stage = stage }

Latest(ks) == CHOOSE k \in ks : \A other \in ks : other <= k

KnownDevices ==
  DeviceIds \cup { reports[k].deviceId : k \in 1..Len(reports) }
            \cup { deviceStatuses[i].deviceId : i \in 1..Len(deviceStatuses) }

StatusIsLatestOutcome ==
  \A d \in KnownDevices, stage \in Stages :
    IF ReportsFor(d, stage) = {}
    THEN \A i \in RowsOf(deviceStatuses, d) :
           StageField(deviceStatuses[i], stage) = "pending"
    ELSE /\ RowsOf(deviceStatuses, d) # {}
         /\ \A i \in RowsOf(deviceStatuses, d) :
              StageField(deviceStatuses[i], stage)
                = Outcome(reports[Latest(ReportsFor(d, stage))].checkpoints)

\* a device failed FQC, then passed it, and was then packaged
PackagedAfterSecondFqc ==
  /\ Len(reports) = 3
  /\ reports[1].deviceId = reports[2].deviceId
  /\ reports[2].deviceId = reports[3].deviceId
  /\ reports[1].stage = "FQC" /\ AnyFail(reports[1].checkpoints)
  /\ reports[2].stage = "FQC" /\ ~AnyFail(reports[2].checkpoints)
  /\ reports[3].stage = "Packaging"
  /\ \E i \in RowsOf(deviceStatuses, reports[3].deviceId) :
       /\ deviceStatuses[i].fqcStatus = "completed"
       /\ deviceStatuses[i].packagingStatus # "pending"

(***************************************************************************)
(* C37.  A device whose packagingStatus is not pending has fqcStatus       *)
(* completed, whatever FQC and Packaging submissions were made, an FQC     *)
(* submission after the Packaging one included.                            *)
(***************************************************************************)
PackagedOnlyAfterFqc ==
  \A i \in 1..Len(deviceStatuses) :
    deviceStatuses[i].packagingStatus # "pending"
    => deviceStatuses[i].fqcStatus = "completed"

(***************************************************************************)
(* C38.  Every stored report holds at least one checkpoint: a checklist    *)
(* emptied of its checkpoints is not accepted.                             *)
(***************************************************************************)
ReportsHaveCheckpoints ==
  \A r \in 1..Len(reports) : reports[r].checkpoints # <<>>

(***************************************************************************)
(* C39.  While the workflow is on the admin console or the dashboard, the  *)
(* current identity is a user of the Users collection with isAdmin set,    *)
(* whatever stage selections, logins, BACKs, submissions and logouts came  *)
(* before.                                                                 *)
(***************************************************************************)
AdminSurfacesNeedAdmin ==
  currentStep \in {"ADMIN", "DASHBOARD"}
  => /\ currentUser # NoUser
     /\ currentUser.isAdmin
     /\ currentUser.isActive
     /\ \E u \in 1..Len(UsersRead) :
          /\ UsersRead[u].userId = currentUser.userId
          /\ UsersRead[u].isAdmin

\* the administrator is on the dashboard while the submission of the
\* operator who logged out before is still to be stored
DashboardWhileSubmissionPending ==
  /\ currentStep = "DASHBOARD"
  /\ currentUser # NoUser
  /\ currentUser.isAdmin
  /\ submitTimer # NoTimer
  /\ submitTimer.report.userId # currentUser.userId

(***************************************************************************)
(* C40.  Every accepted submission completes: its report is eventually     *)
(* stored, the status of its device is updated and the submitting flag is  *)
(* cleared, whatever the operator does meanwhile; and while a submission   *)
(* is pending no other submission is accepted.                             *)
(***************************************************************************)
Pending == submitTimer # NoTimer

Completes ==
  /\ reports' = Append(reports, submitTimer.report)
  /\ ~isSubmitting'
  /\ submitTimer.report.stage \in Stages
     => /\ RowsOf(deviceStatuses', submitTimer.report.deviceId) # {}
        /\ \A i \in RowsOf(deviceStatuses', submitTimer.report.deviceId) :
             StageField(deviceStatuses'[i], submitTimer.report.stage)
               = Outcome(submitTimer.report.checkpoints)

SubmissionCompletes ==
  /\ Pending ~> ~Pending
  /\ [](Pending <=> isSubmitting)
  /\ [][ Pending => (submitTimer' = submitTimer \/ (~Pending' /\ Completes)) ]_vars
  /\ [][ Pending => (reports' = reports \/ ~Pending') ]_vars

\* the report was stored after the operator had logged out
StoredAfterLogout ==
  /\ currentStep = "SUCCESS"
  /\ currentUser = NoUser
  /\ ~Pending
  /\ ~isSubmitting
  /\ reports # <<>>
  /\ LastReport(reports).userId = "op1"
====
